---- MODULE Spec2Model ----
(***************************************************************************)
(* A model of mauview (go.mau.fi/mauview): the Application run loop, the   *)
(* ProxyScreen clipping proxy and the focus / hit-testing logic of the     *)
(* Flex, Grid, Form, Box and Centerer containers.                          *)
(***************************************************************************)
EXTENDS Integers, Sequences, FiniteSets, TLC

VARIABLES
    \* ---- Application (unnamed/part_005) ----
    root,          \* app.root: "none" or a component name
    screen,        \* app.screen # nil
    events,        \* the events channel of the running Start
    updates,       \* app.updates
    stop,          \* number of tokens in app.stop (capacity 1)
    gen,           \* app.waitForStop: 0 is nil, g > 0 the channel made by the g-th Start
    closed,        \* the waitForStop channels that have been closed
    fini,          \* fini[g]: number of screen.Fini() calls on the g-th screen
    pc,            \* position of the task that called Start
    cur,           \* the root handler the loop is executing
    redraw,        \* local redraw of the loop iteration
    clear,         \* local clear of the loop iteration
    isPasting,     \* local isPasting of Start
    pasteBuffer,   \* local pasteBuffer of Start
    stopPc,        \* position of each caller of Stop
    stopGen,       \* the waitForStop channel a caller of Stop is receiving from
    quota,         \* inputs the environment may still provide
    inRoot,        \* tasks that are inside a handler or Draw of the root
    compKeys,      \* key events taken by the loop since the last paste-start marker
    turn,          \* what the current loop iteration took and gave to the root
    tscreen,       \* the tcell screen of the last newScreen: "none", "made", "ready", "finished"
    startErr,      \* the error the last call of Start returned before its loop, "nil" if none
    \* ---- ProxyScreen (screen.go) ----
    chain,         \* nested ProxyScreens: chain[1].Parent is the root surface
    probe,         \* the last call made on the innermost ProxyScreen
    \* ---- component tree (flex.go, form.go, center.go, unnamed/part_001/009) ----
    ui,            \* the fields of every component of the tree
    surface,       \* the size of the root surface the tree is drawn on
    laidOut,       \* the tree has been drawn since its last structural change
    calls,         \* calls the application code may still make on the tree
    panicked       \* a handler of the tree has panicked

appVars == <<root, screen, events, updates, stop, gen, closed, fini, pc, cur,
             redraw, clear, isPasting, pasteBuffer, stopPc, stopGen, quota,
             inRoot, compKeys, turn, tscreen, startErr>>

screenVars == <<chain, probe>>
treeVars == <<ui, surface, laidOut, calls, panicked>>

vars == <<appVars, screenVars, treeVars>>

\* ---- bounds ----
PasteEvents == 4    \* terminal events produced in one behaviour of SpecPaste
StopEvents == 1     \* terminal events produced in one behaviour of SpecStop
LoopEvents == 2     \* terminal events produced in one behaviour of SpecEvents
MaxUpdates == 1     \* programmatic updates requested in one behaviour
MaxStarts == 1      \* calls of Start in one behaviour
MaxStops == 2       \* calls of Stop in one behaviour
MaxQueue == 2       \* capacity the model gives the channels (queueSize in the code)

\* ---- runes and keys (tcell) ----
RuneLF == 10    \* '\n', the byte Start writes for KeyEnter

NoEvent == [type |-> "none", key |-> "none", rune |-> 0, start |-> FALSE, text |-> <<>>]
KeyEv(k, r) == [type |-> "key", key |-> k, rune |-> r, start |-> FALSE, text |-> <<>>]
PasteEv(s) == [type |-> "paste", key |-> "none", rune |-> 0, start |-> s, text |-> <<>>]
MouseEv == [type |-> "mouse", key |-> "none", rune |-> 0, start |-> FALSE, text |-> <<>>]
ResizeEv == [type |-> "resize", key |-> "none", rune |-> 0, start |-> FALSE, text |-> <<>>]

\* The key events of the model: the rune 'a', Enter (tcell.KeyEnter, rune CR)
\* and Tab (tcell.KeyTab, rune HT).
KeyA == KeyEv("KeyRune", 97)
KeyEnter == KeyEv("KeyEnter", 13)
KeyTab == KeyEv("KeyTab", 9)
KeyEvents == {KeyA, KeyEnter, KeyTab}
TermEvents == KeyEvents \cup {PasteEv(TRUE), PasteEv(FALSE), MouseEv, ResizeEv}

Roots == {"r1", "r2"}
Callers == {"t1", "t2"}
LoopTask == "loop"
StopCallers == Callers \cup {LoopTask}

Update(u, r) == [u |-> u, root |-> r]
Updates == {Update("redraw", "none"), Update("suspend", "none")}
               \cup {Update("setRoot", r) : r \in Roots}

NoTurn == [ev |-> NoEvent, keys |-> <<>>, pasting |-> FALSE, calls |-> 0, call |-> NoEvent,
           handled |-> FALSE, update |-> "none", focus |-> "none"]

\* The roots that have Focus and Blur (the interface Focusable).
Focusable == {"r1"}
\* A loop that calls Focus on every new root.
FocusOfAnyRoot(r) == r
\* Start, lines 145-148: the root Focus is called on, "none" if on none.
FocusOfRoot(r) == IF r \in Focusable THEN r ELSE "none"

\* ---- Application.Start, lines 115-120: the paste buffer takes a key ----
WritePasteKeyRunesOnly(buf, ev) ==
    IF ev.key = "KeyRune" THEN Append(buf, ev.rune) ELSE buf

WritePasteKey(buf, ev) ==
    CASE ev.key = "KeyRune" -> Append(buf, ev.rune)
      [] ev.key = "KeyEnter" -> Append(buf, RuneLF)
      [] OTHER -> buf

InitApp(q) ==
    /\ root \in {"none", "r1"}
    /\ screen = FALSE
    /\ events = <<>>
    /\ updates = <<>>
    /\ stop = 0
    /\ gen = 0
    /\ closed = {}
    /\ fini = [g \in 1..(MaxStarts + 1) |-> 0]
    /\ pc = "stopped"
    /\ cur = NoEvent
    /\ redraw = FALSE
    /\ clear = FALSE
    /\ isPasting = FALSE
    /\ pasteBuffer = <<>>
    /\ stopPc = [t \in StopCallers |-> "idle"]
    /\ stopGen = [t \in StopCallers |-> 0]
    /\ quota = q
    /\ inRoot = {}
    /\ compKeys = <<>>
    /\ turn = NoTurn
    /\ tscreen = "none"
    /\ startErr = "nil"

ghostVars == <<compKeys, turn>>
termVars == <<tscreen, startErr>>
loopLocals == <<cur, redraw, clear, isPasting, pasteBuffer>>
stopVars == <<stopPc, stopGen>>

\* newScreen, lines 60-71: tcell.NewScreen fails and there is no screen
\* ("none"), or it returns a screen and screen.Init fails ("made"), or both
\* succeed ("ready").
ScreenOutcomes == {"none", "made", "ready"}

\* Start without lines 79-81: a new screen and events channel whatever the root.
StartBeginAnyRoot ==
    /\ pc = "stopped"
    /\ quota.starts > 0
    /\ quota' = [quota EXCEPT !.starts = @ - 1]
    /\ \E outcome \in ScreenOutcomes :
         IF outcome # "ready"
         THEN /\ tscreen' = outcome
              /\ startErr' = "screen"
              /\ UNCHANGED <<pc, screen, events, isPasting, pasteBuffer>>
         ELSE /\ tscreen' = "ready"
              /\ startErr' = "nil"
              /\ pc' = "starting"
              /\ screen' = TRUE
              /\ events' = <<>>
              /\ isPasting' = FALSE
              /\ pasteBuffer' = <<>>
    /\ UNCHANGED <<root, updates, stop, gen, closed, fini, cur, redraw, clear,
                   stopVars, inRoot, ghostVars>>
    /\ UNCHANGED <<screenVars, treeVars>>

\* Start, lines 78-91, and newScreen, lines 60-71: no root is an error; else
\* tcell.NewScreen and screen.Init, either of which may fail, and Start
\* returns the error; else a new screen and events channel.
StartBegin ==
    /\ pc = "stopped"
    /\ quota.starts > 0
    /\ quota' = [quota EXCEPT !.starts = @ - 1]
    /\ \E outcome \in ScreenOutcomes :
         IF root = "none"
         THEN /\ startErr' = "root"
              /\ UNCHANGED <<pc, screen, events, isPasting, pasteBuffer, tscreen>>
         ELSE IF outcome # "ready"
         THEN /\ tscreen' = outcome
              /\ startErr' = "screen"
              /\ UNCHANGED <<pc, screen, events, isPasting, pasteBuffer>>
         ELSE /\ tscreen' = "ready"
              /\ startErr' = "nil"
              /\ pc' = "starting"
              /\ screen' = TRUE
              /\ events' = <<>>
              /\ isPasting' = FALSE
              /\ pasteBuffer' = <<>>
    /\ UNCHANGED <<root, updates, stop, gen, closed, fini, cur, redraw, clear,
                   stopVars, inRoot, ghostVars>>
    /\ UNCHANGED <<screenVars, treeVars>>

\* Start, line 92: app.waitForStop = make(chan struct{})
StartMakeWait ==
    /\ pc = "starting"
    /\ gen' = gen + 1
    /\ pc' = "select"
    /\ UNCHANGED <<root, screen, events, updates, stop, closed, fini, loopLocals,
                   stopVars, quota, inRoot, ghostVars, termVars>>
    /\ UNCHANGED <<screenVars, treeVars>>

\* screen.ChannelEvents: the producer task puts a decoded event in the channel.
ProduceEvent(e) ==
    /\ pc \notin {"stopped"}
    /\ e \in quota.kinds
    /\ quota.events > 0
    /\ Len(events) < MaxQueue
    /\ events' = Append(events, e)
    /\ quota' = [quota EXCEPT !.events = @ - 1]
    /\ UNCHANGED <<root, screen, updates, stop, gen, closed, fini, pc, loopLocals,
                   stopVars, inRoot, ghostVars, termVars>>
    /\ UNCHANGED <<screenVars, treeVars>>

\* Start, lines 112-139: the switch on the event type.  The result is the new
\* isPasting and pasteBuffer, the event handed to the root (NoEvent when no
\* handler is called) and the redraw and clear flags set without a handler.
OnEvent(ev, pasting, buf) ==
    CASE ev.type = "key" /\ pasting ->
           [pasting |-> pasting, buf |-> WritePasteKey(buf, ev), call |-> NoEvent,
            redraw |-> FALSE, clear |-> FALSE]
      [] ev.type = "key" /\ ~pasting ->
           [pasting |-> pasting, buf |-> buf, call |-> ev,
            redraw |-> FALSE, clear |-> FALSE]
      [] ev.type = "paste" /\ ev.start ->
           [pasting |-> TRUE, buf |-> <<>>, call |-> NoEvent,
            redraw |-> FALSE, clear |-> FALSE]
      [] ev.type = "paste" /\ ~ev.start ->
           [pasting |-> FALSE, buf |-> <<>>, call |-> [ev EXCEPT !.text = buf],
            redraw |-> FALSE, clear |-> FALSE]
      [] ev.type = "mouse" ->
           [pasting |-> pasting, buf |-> buf, call |-> ev,
            redraw |-> FALSE, clear |-> FALSE]
      [] OTHER ->
           [pasting |-> pasting, buf |-> buf, call |-> NoEvent,
            redraw |-> TRUE, clear |-> TRUE]

\* A select that takes the newest event of the channel, not the oldest.
TakeEventNewest ==
    /\ pc = "select"
    /\ events # <<>>
    /\ LET ev == events[Len(events)]
           r == OnEvent(ev, isPasting, pasteBuffer)
       IN
       /\ events' = SubSeq(events, 1, Len(events) - 1)
       /\ isPasting' = r.pasting
       /\ pasteBuffer' = r.buf
       /\ cur' = r.call
       /\ redraw' = r.redraw
       /\ clear' = r.clear
       /\ pc' = IF r.call # NoEvent THEN "handler" ELSE "checkstop"
       /\ inRoot' = IF r.call # NoEvent THEN inRoot \cup {LoopTask} ELSE inRoot
       /\ compKeys' = CASE ev.type = "paste" -> <<>>
                        [] ev.type = "key" /\ isPasting -> Append(compKeys, ev)
                        [] OTHER -> compKeys
       /\ turn' = [ev |-> ev, keys |-> compKeys, pasting |-> isPasting,
                   calls |-> IF r.call # NoEvent THEN 1 ELSE 0, call |-> r.call,
                   handled |-> FALSE, update |-> "none", focus |-> "none"]
    /\ UNCHANGED <<root, screen, updates, stop, gen, closed, fini, stopVars, quota, termVars>>
    /\ UNCHANGED <<screenVars, treeVars>>

\* Start, lines 111-139: the select takes a terminal event.
TakeEvent ==
    /\ pc = "select"
    /\ events # <<>>
    /\ LET ev == Head(events)
           r == OnEvent(ev, isPasting, pasteBuffer)
       IN
       /\ events' = Tail(events)
       /\ isPasting' = r.pasting
       /\ pasteBuffer' = r.buf
       /\ cur' = r.call
       /\ redraw' = r.redraw
       /\ clear' = r.clear
       /\ pc' = IF r.call # NoEvent THEN "handler" ELSE "checkstop"
       /\ inRoot' = IF r.call # NoEvent THEN inRoot \cup {LoopTask} ELSE inRoot
       /\ compKeys' = CASE ev.type = "paste" -> <<>>
                        [] ev.type = "key" /\ isPasting -> Append(compKeys, ev)
                        [] OTHER -> compKeys
       /\ turn' = [ev |-> ev, keys |-> compKeys, pasting |-> isPasting,
                   calls |-> IF r.call # NoEvent THEN 1 ELSE 0, call |-> r.call,
                   handled |-> FALSE, update |-> "none", focus |-> "none"]
    /\ UNCHANGED <<root, screen, updates, stop, gen, closed, fini, stopVars, quota, termVars>>
    /\ UNCHANGED <<screenVars, treeVars>>

\* Start, lines 122, 132, 135: the root's handler returns handled or not.
HandlerReturn(handled) ==
    /\ pc = "handler"
    /\ stopPc[LoopTask] \notin {"sent", "waiting"}
    /\ redraw' = handled
    /\ cur' = NoEvent
    /\ pc' = "checkstop"
    /\ inRoot' = inRoot \ {LoopTask}
    /\ turn' = [turn EXCEPT !.handled = handled]
    /\ UNCHANGED <<root, screen, events, updates, stop, gen, closed, fini, clear,
                   isPasting, pasteBuffer, stopVars, quota, compKeys, termVars>>
    /\ UNCHANGED <<screenVars, treeVars>>

\* Start, lines 140-141: the redraw ticker fires.
Tick ==
    /\ pc = "select"
    /\ quota.ticks > 0
    /\ quota' = [quota EXCEPT !.ticks = @ - 1]
    /\ redraw' = TRUE
    /\ clear' = FALSE
    /\ pc' = "checkstop"
    /\ UNCHANGED <<root, screen, events, updates, stop, gen, closed, fini, cur,
                   isPasting, pasteBuffer, stopVars, inRoot, ghostVars, termVars>>
    /\ UNCHANGED <<screenVars, treeVars>>

\* Start, lines 142-169: the select takes an update.
TakeUpdate ==
    /\ pc = "select"
    /\ updates # <<>>
    /\ LET up == Head(updates) IN
       /\ updates' = Tail(updates)
       /\ root' = IF up.u = "setRoot" THEN up.root ELSE root
       /\ redraw' = TRUE
       /\ clear' = (up.u # "redraw")
       /\ pc' = IF up.u = "suspend" THEN "suspended" ELSE "checkstop"
       /\ turn' = [NoTurn EXCEPT !.update = up.u,
                                 !.focus = IF up.u = "setRoot" THEN FocusOfRoot(up.root)
                                           ELSE "none"]
    /\ UNCHANGED <<screen, events, stop, gen, closed, fini, cur, isPasting,
                   pasteBuffer, stopVars, quota, inRoot, compKeys, termVars>>
    /\ UNCHANGED <<screenVars, treeVars>>

\* Start, lines 160-168: updater.wait() returns and the screen resumes.
SuspendResume ==
    /\ pc = "suspended"
    /\ pc' = "checkstop"
    /\ UNCHANGED <<root, screen, events, updates, stop, gen, closed, fini,
                   loopLocals, stopVars, quota, inRoot, ghostVars, termVars>>
    /\ UNCHANGED <<screenVars, treeVars>>

\* Start, lines 170-171: the select takes the stop signal.
TakeStop ==
    /\ pc = "select"
    /\ stop = 1
    /\ stop' = 0
    /\ pc' = "defer1"
    /\ UNCHANGED <<root, screen, events, updates, gen, closed, fini, loopLocals,
                   stopVars, quota, inRoot, ghostVars, termVars>>
    /\ UNCHANGED <<screenVars, treeVars>>

\* Start, lines 178-185 without the condition of line 178: the loop draws
\* after every iteration.
CheckStopAlwaysDraw ==
    /\ pc = "checkstop"
    /\ IF stop = 1
       THEN /\ stop' = 0
            /\ pc' = "defer1"
            /\ UNCHANGED inRoot
       ELSE /\ UNCHANGED stop
            /\ pc' = "draw" /\ inRoot' = inRoot \cup {LoopTask}
    /\ turn' = NoTurn
    /\ UNCHANGED <<root, screen, events, updates, gen, closed, fini, loopLocals,
                   stopVars, quota, compKeys, termVars>>
    /\ UNCHANGED <<screenVars, treeVars>>

\* Start, lines 173-185: the second stop check, then the redraw begins or is skipped.
CheckStop ==
    /\ pc = "checkstop"
    /\ IF stop = 1
       THEN /\ stop' = 0
            /\ pc' = "defer1"
            /\ UNCHANGED inRoot
       ELSE /\ UNCHANGED stop
            /\ IF redraw
               THEN pc' = "draw" /\ inRoot' = inRoot \cup {LoopTask}
               ELSE pc' = "select" /\ UNCHANGED inRoot
    /\ turn' = NoTurn
    /\ UNCHANGED <<root, screen, events, updates, gen, closed, fini, loopLocals,
                   stopVars, quota, compKeys, termVars>>
    /\ UNCHANGED <<screenVars, treeVars>>

\* Start, lines 183-184: root.Draw and screen.Show have returned.
DrawDone ==
    /\ pc = "draw"
    /\ pc' = "select"
    /\ inRoot' = inRoot \ {LoopTask}
    /\ UNCHANGED <<root, screen, events, updates, stop, gen, closed, fini,
                   loopLocals, stopVars, quota, ghostVars, termVars>>
    /\ UNCHANGED <<screenVars, treeVars>>

\* Start, lines 95-97 (deferred): app.screen = nil under the lock.
DeferClearScreen ==
    /\ pc = "defer1"
    /\ screen' = FALSE
    /\ pc' = "defer2"
    /\ UNCHANGED <<root, events, updates, stop, gen, closed, fini, loopLocals,
                   stopVars, quota, inRoot, ghostVars, termVars>>
    /\ UNCHANGED <<screenVars, treeVars>>

\* Start, line 98 (deferred): close(app.waitForStop).
DeferClose ==
    /\ pc = "defer2"
    /\ closed' = closed \cup {gen}
    /\ pc' = "defer3"
    /\ UNCHANGED <<root, screen, events, updates, stop, gen, fini, loopLocals,
                   stopVars, quota, inRoot, ghostVars, termVars>>
    /\ UNCHANGED <<screenVars, treeVars>>

\* Start, lines 99-101 (deferred): screen.Fini(), and Start returns.
DeferFini ==
    /\ pc = "defer3"
    /\ fini' = [fini EXCEPT ![gen] = @ + 1]
    /\ tscreen' = "finished"
    /\ pc' = "stopped"
    /\ UNCHANGED <<root, screen, events, updates, stop, gen, closed, loopLocals,
                   stopVars, quota, inRoot, ghostVars, startErr>>
    /\ UNCHANGED <<screenVars, treeVars>>

\* ForceStop, lines 197-203, in the place of Stop: Fini on the screen, then the send.
StopSendAndFini(t) ==
    /\ stopPc[t] = "idle"
    /\ t = LoopTask => (pc = "handler" /\ cur.type = "key")
    /\ quota.stops > 0
    /\ gen > 0
    /\ quota' = [quota EXCEPT !.stops = @ - 1]
    /\ fini' = [fini EXCEPT ![gen] = @ + 1]
    /\ stop' = 1
    /\ stopPc' = [stopPc EXCEPT ![t] = "sent"]
    /\ UNCHANGED <<root, screen, events, updates, gen, closed, pc,
                   loopLocals, stopGen, inRoot, ghostVars, termVars>>
    /\ UNCHANGED <<screenVars, treeVars>>

\* Stop, lines 190-193: the non-blocking send on app.stop.  The loop task calls
\* Stop only from inside a key handler (mauview-test/main.go:31-36).
StopSend(t) ==
    /\ stopPc[t] = "idle"
    /\ t = LoopTask => (pc = "handler" /\ cur.type = "key")
    /\ quota.stops > 0
    /\ quota' = [quota EXCEPT !.stops = @ - 1]
    /\ stop' = 1
    /\ stopPc' = [stopPc EXCEPT ![t] = "sent"]
    /\ UNCHANGED <<root, screen, events, updates, gen, closed, fini, pc,
                   loopLocals, stopGen, inRoot, ghostVars, termVars>>
    /\ UNCHANGED <<screenVars, treeVars>>

\* Stop, line 194: the receive from app.waitForStop begins (on the channel that
\* the field holds now; a nil channel never delivers).
StopWait(t) ==
    /\ stopPc[t] = "sent"
    /\ stopGen' = [stopGen EXCEPT ![t] = gen]
    /\ stopPc' = [stopPc EXCEPT ![t] = "waiting"]
    /\ UNCHANGED <<root, screen, events, updates, stop, gen, closed, fini, pc,
                   loopLocals, quota, inRoot, ghostVars, termVars>>
    /\ UNCHANGED <<screenVars, treeVars>>

\* Stop, lines 194-195: the channel is closed, Stop returns.
StopReturn(t) ==
    /\ stopPc[t] = "waiting"
    /\ stopGen[t] \in closed
    /\ stopPc' = [stopPc EXCEPT ![t] = "returned"]
    /\ UNCHANGED <<root, screen, events, updates, stop, gen, closed, fini, pc,
                   loopLocals, stopGen, quota, inRoot, ghostVars, termVars>>
    /\ UNCHANGED <<screenVars, treeVars>>

\* Suspend, Redraw (lines 215-221) and SetRoot (lines 223-235), called by a task.
RedrawDirect(t) ==
    /\ quota.updates > 0
    /\ quota' = [quota EXCEPT !.updates = @ - 1]
    /\ inRoot' = inRoot \cup {t}
    /\ UNCHANGED <<root, screen, events, updates, stop, gen, closed, fini, pc,
                   loopLocals, stopVars, ghostVars, termVars>>
    /\ UNCHANGED <<screenVars, treeVars>>

Redraw(t) ==
    /\ quota.updates > 0
    /\ Len(updates) < MaxQueue
    /\ quota' = [quota EXCEPT !.updates = @ - 1]
    /\ updates' = Append(updates, Update("redraw", "none"))
    /\ UNCHANGED <<root, screen, events, stop, gen, closed, fini, pc,
                   loopLocals, stopVars, inRoot, ghostVars, termVars>>
    /\ UNCHANGED <<screenVars, treeVars>>

Suspend(t) ==
    /\ quota.updates > 0
    /\ Len(updates) < MaxQueue
    /\ quota' = [quota EXCEPT !.updates = @ - 1]
    /\ updates' = Append(updates, Update("suspend", "none"))
    /\ UNCHANGED <<root, screen, events, stop, gen, closed, fini, pc,
                   loopLocals, stopVars, inRoot, ghostVars, termVars>>
    /\ UNCHANGED <<screenVars, treeVars>>

SetRoot(t, r) ==
    /\ quota.updates > 0
    /\ quota' = [quota EXCEPT !.updates = @ - 1]
    /\ IF screen
       THEN /\ Len(updates) < MaxQueue
            /\ updates' = Append(updates, Update("setRoot", r))
            /\ UNCHANGED root
       ELSE /\ root' = r
            /\ UNCHANGED updates
    /\ UNCHANGED <<screen, events, stop, gen, closed, fini, pc,
                   loopLocals, stopVars, inRoot, ghostVars, termVars>>
    /\ UNCHANGED <<screenVars, treeVars>>

NextApp ==
    \/ StartBegin
    \/ StartMakeWait
    \/ \E e \in TermEvents : ProduceEvent(e)
    \/ TakeEvent
    \/ \E h \in BOOLEAN : HandlerReturn(h)
    \/ Tick
    \/ TakeUpdate
    \/ SuspendResume
    \/ TakeStop
    \/ CheckStop
    \/ DrawDone
    \/ DeferClearScreen
    \/ DeferClose
    \/ DeferFini
    \/ \E t \in StopCallers : StopSend(t)
    \/ \E t \in StopCallers : StopWait(t)
    \/ \E t \in StopCallers : StopReturn(t)
    \/ \E t \in Callers : Redraw(t)
    \/ \E t \in Callers : Suspend(t)
    \/ \E t \in Callers, r \in Roots : SetRoot(t, r)

Quota(e, kinds, u, starts, stops) ==
    [events |-> e, kinds |-> kinds, updates |-> u, starts |-> starts,
     stops |-> stops, ticks |-> 1]

PasteKinds == KeyEvents \cup {PasteEv(TRUE), PasteEv(FALSE)}
StopKinds == {KeyA, MouseEv, ResizeEv}

(***************************************************************************)
(* ProxyScreen (screen.go)                                                 *)
(***************************************************************************)

\* ---- bounds ----
MaxChain == 2       \* ProxyScreens nested inside one another
MaxCoord == 2       \* largest local coordinate of a call on a ProxyScreen

\* Offsets and sizes the model gives a ProxyScreen: negative, zero and positive.
OffsetsX == {-1, 0, 1}
OffsetsY == {0, 1}
Widths == {-1, 0, 2}
Heights == {-1, 2}
CoordsX == -1..MaxCoord
CoordsY == -1..(MaxCoord - 1)

\* screen.go:33-49
NewProxy(ox, oy, w, h) == [OffsetX |-> ox, OffsetY |-> oy, Width |-> w, Height |-> h]

\* screen.go:51-54
IsInArea(ss, x, y) ==
    /\ x >= ss.OffsetX /\ x <= ss.OffsetX + ss.Width
    /\ y >= ss.OffsetY /\ y <= ss.OffsetY + ss.Height

\* screen.go:56-62
YEnd(ss) == ss.OffsetY + ss.Height
XEnd(ss) == ss.OffsetX + ss.Width

\* screen.go:84-92
adjustCoordinates(ss, x, y) ==
    IF \/ x < 0
       \/ y < 0
       \/ (ss.Width >= 0 /\ x >= ss.Width)
       \/ (ss.Height >= 0 /\ y >= ss.Height)
    THEN [x |-> -1, y |-> -1, ok |-> FALSE]
    ELSE [x |-> x + ss.OffsetX, y |-> y + ss.OffsetY, ok |-> TRUE]

\* A Size that forgets the offset of the screen in its parent.
ProxySizeNoOffset(ss, pw, ph) ==
    <<IF pw > ss.Width THEN ss.Width ELSE pw,
      IF ph > ss.Height THEN ss.Height ELSE ph>>

\* screen.go:127-142, with the size of the parent
ProxySize(ss, pw, ph) ==
    <<IF pw - ss.OffsetX > ss.Width THEN ss.Width ELSE pw - ss.OffsetX,
      IF ph - ss.OffsetY > ss.Height THEN ss.Height ELSE ph - ss.OffsetY>>

\* screen.go:94-121: SetCell, SetContent, GetContent and ShowCursor called at
\* (x, y) on screen number i of the chain ch, 0 being the root surface; the
\* result is the set of cells of the root surface the call reaches.
RECURSIVE CellsVia(_, _, _, _)
CellsVia(ch, i, x, y) ==
    IF i = 0
    THEN {<<x, y>>}
    ELSE LET a == adjustCoordinates(ch[i], x, y)
         IN IF a.ok THEN CellsVia(ch, i - 1, a.x, a.y) ELSE {}

\* screen.go:68-78: Fill (and Clear) of screen number i of the chain.
FillVia(ch, i) ==
    UNION {CellsVia(ch, i - 1, x, y) :
             x \in ch[i].OffsetX..(XEnd(ch[i]) - 1),
             y \in ch[i].OffsetY..(YEnd(ch[i]) - 1)}

CellOps == {"SetCell", "SetContent", "GetContent", "ShowCursor"}
NoProbe == [op |-> "none", x |-> 0, y |-> 0, reached |-> FALSE, px |-> 0, py |-> 0,
            cells |-> {}, ret |-> "none", size |-> <<0, 0>>]

\* screen.go:131-142: Size() of screen number i of the chain ch, 0 being the
\* root surface, of size top.
RECURSIVE SizeVia(_, _, _)
SizeVia(ch, i, top) ==
    IF i = 0
    THEN top
    ELSE LET parent == SizeVia(ch, i - 1, top)
         IN ProxySize(ch[i], parent[1], parent[2])

InitScreen ==
    /\ chain = <<>>
    /\ probe = NoProbe

\* screen.go:40-49: a ProxyScreen whose Parent is the innermost screen so far.
NewProxyScreen(ox, oy, w, h) ==
    /\ Len(chain) < MaxChain
    /\ chain' = Append(chain, NewProxy(ox, oy, w, h))
    /\ probe' = NoProbe
    /\ UNCHANGED <<appVars, treeVars>>

\* The call op(x, y) on the innermost ProxyScreen: what its Parent is given,
\* what the root surface is given, and what GetContent returns. A call leaves
\* the chain as it is, so one call is recorded for every chain.
CellCall(op, x, y) ==
    /\ Len(chain) > 0
    /\ probe = NoProbe
    /\ LET n == Len(chain)
           a == adjustCoordinates(chain[n], x, y)
           cells == CellsVia(chain, n, x, y)
       IN probe' = [op |-> op, x |-> x, y |-> y, reached |-> a.ok,
                    px |-> a.x, py |-> a.y, cells |-> cells,
                    ret |-> IF op # "GetContent" THEN "none"
                            ELSE IF cells = {} THEN "empty" ELSE "root",
                    size |-> <<0, 0>>]
    /\ UNCHANGED <<chain, appVars, treeVars>>

\* screen.go:94-99
SetCell(x, y) == CellCall("SetCell", x, y)

\* screen.go:101-107
GetContent(x, y) == CellCall("GetContent", x, y)

\* screen.go:109-114
SetContent(x, y) == CellCall("SetContent", x, y)

\* screen.go:116-121
ShowCursor(x, y) == CellCall("ShowCursor", x, y)

FillCall(op) ==
    /\ Len(chain) > 0
    /\ probe = NoProbe
    /\ probe' = [NoProbe EXCEPT !.op = op, !.cells = FillVia(chain, Len(chain))]
    /\ UNCHANGED <<chain, appVars, treeVars>>

\* screen.go:72-78
Fill == FillCall("Fill")

\* screen.go:68-70
Clear == FillCall("Clear")

\* screen.go:131-142: Size() called on the innermost ProxyScreen.
Size ==
    /\ Len(chain) > 0
    /\ probe = NoProbe
    /\ probe' = [NoProbe EXCEPT !.op = "Size", !.size = SizeVia(chain, Len(chain), surface)]
    /\ UNCHANGED <<chain, appVars, treeVars>>

NextScreen ==
    \/ \E ox \in OffsetsX, oy \in OffsetsY, w \in Widths, h \in Heights :
          NewProxyScreen(ox, oy, w, h)
    \/ \E x \in CoordsX, y \in CoordsY : SetCell(x, y)
    \/ \E x \in CoordsX, y \in CoordsY : GetContent(x, y)
    \/ \E x \in CoordsX, y \in CoordsY : SetContent(x, y)
    \/ \E x \in CoordsX, y \in CoordsY : ShowCursor(x, y)
    \/ Fill
    \/ Clear
    \/ Size

(***************************************************************************)
(* The component tree: Flex, Form (a Grid), Box, Centerer and leaves       *)
(***************************************************************************)

\* ---- bounds ----
MaxWidth == 6       \* width of the root surface the tree is drawn on
MaxHeight == 2      \* height of the root surface the tree is drawn on
MaxCalls == 1       \* calls the application code makes on the tree in one behaviour
FormCalls == 2      \* calls the application code makes on the form in one behaviour

\* The tree of the model: the Flex F holds the leaf A (fixed size 2),
\* the Form G (weight 1) and the Centerer C (weight 1); G holds the Box B
\* around the leaf L in grid cell (0, 0) and the leaf M in cell (0, 1), both
\* as form items; C centers the leaf D.  The leaf N is a third form item, for
\* cell (0, 2), of the forms that have one.
Nodes == {"F", "A", "G", "B", "L", "M", "N", "C", "D"}
RootComp == "F"
Kind == [F |-> "Flex", A |-> "Leaf", G |-> "Form", B |-> "Box", L |-> "Leaf",
         M |-> "Leaf", N |-> "Leaf", C |-> "Centerer", D |-> "Leaf"]
Inner == [B |-> "L", C |-> "D"]
ParentOf == [A |-> "F", G |-> "F", C |-> "F", B |-> "G", M |-> "G", N |-> "G", L |-> "B",
             D |-> "C"]
Leaves == {n \in Nodes : Kind[n] = "Leaf"}
\* the components that have Submit (FormItem, form.go:19-22)
FormItems == {"M", "N"}
GridCell == [B |-> [relX |-> 0, relY |-> 0, relWidth |-> 1, relHeight |-> 1],
             M |-> [relX |-> 0, relY |-> 1, relWidth |-> 1, relHeight |-> 1],
             N |-> [relX |-> 0, relY |-> 2, relWidth |-> 1, relHeight |-> 1]]

\* flex.go:21-24: a flexChild; its screen is the field screen of the target.
FlexChild(t, s) == [target |-> t, size |-> s]
NoChild == FlexChild("nil", 0)

\* A division that rounds down, in the place of Go's.
FloorDiv(a, b) == a \div b

\* Go's integer division and remainder (truncated), for a positive divisor.
GoDiv(a, b) == IF a >= 0 THEN a \div b ELSE -((-a) \div b)
GoRem(a, b) == a - b * GoDiv(a, b)

\* The fields a component of each type has after construction. The field
\* screen is the ProxyScreen the parent keeps for the component
\* (flexChild.screen, gridChild.screen, Box.innerScreen, Centerer.screen).
\* button.go:14-28
NewLeaf == [focused |-> FALSE, screen |-> NewProxy(0, 0, 0, 0)]
\* unnamed/part_001:33-41
NewBox == [focused |-> FALSE, border |-> TRUE, screen |-> NewProxy(0, 0, 0, 0)]
\* flex.go:32-38
NewFlex == [direction |-> "FlexColumn", children |-> <<>>, fchild |-> NoChild,
            screen |-> NewProxy(0, 0, 0, 0)]
\* form.go:24-28 and unnamed/part_009:131-141
NewForm == [children |-> <<>>, fitem |-> "nil", items |-> <<>>, focusReceived |-> FALSE,
            prevWidth |-> -1, prevHeight |-> -1, forceResize |-> FALSE,
            columnWidths |-> <<-1>>, rowHeights |-> <<-1>>, cells |-> GridCell,
            screen |-> NewProxy(0, 0, 0, 0)]
\* center.go:169-176
Center == [childFocused |-> FALSE, alwaysFocusChild |-> FALSE,
           screen |-> NewProxy(0, 0, 0, 0)]

\* unnamed/part_008:107-114
MouseEvent(x, y, buttons, motion) == [x |-> x, y |-> y, buttons |-> buttons, motion |-> motion]
OffsetMouseEvent(evt, offsetX, offsetY) == [evt EXCEPT !.x = @ + offsetX, !.y = @ + offsetY]
IsClick(evt) == evt.buttons = "Button1" /\ ~evt.motion

\* What a call on the tree works on: the components, and the record of what
\* the call does: the children the containers give a mouse event to (route),
\* the components whose key or paste handler is called (keys), the components
\* drawn (draws), in order, and whether the call panics.
Call(nodes) == [n |-> nodes, route |-> <<>>, keys |-> <<>>, draws |-> <<>>, panic |-> FALSE]
\* The cells a child may draw on: what adjustCoordinates lets through for a
\* size that is not negative (screen.go:84-92).
InRectangle(ss, x, y) ==
    /\ ss.OffsetX <= x /\ x < ss.OffsetX + ss.Width
    /\ ss.OffsetY <= y /\ y < ss.OffsetY + ss.Height
Ret(u, b) == [u |-> u, ret |-> b]

RECURSIVE Focus(_, _)
RECURSIVE Blur(_, _)
RECURSIVE setFocused(_, _, _)

\* button.go:70-72, unnamed/part_001:43-54, flex.go:165, unnamed/part_009:356-361,
\* center.go:214-222
Focus(c, u) ==
    CASE Kind[c] = "Leaf" -> [u EXCEPT !.n[c].focused = TRUE]
      [] Kind[c] = "Box" -> Focus(Inner[c], [u EXCEPT !.n[c].focused = TRUE])
      [] Kind[c] = "Flex" -> u
      [] Kind[c] = "Form" ->
            LET u1 == [u EXCEPT !.n[c].focusReceived = TRUE]
            IN IF u.n[c].fitem # "nil" THEN Focus(u.n[c].fitem, u1) ELSE u1
      [] Kind[c] = "Centerer" ->
            IF u.n[c].alwaysFocusChild
            THEN Focus(Inner[c], [u EXCEPT !.n[c].childFocused = TRUE])
            ELSE u

\* button.go:74-76, unnamed/part_001:56-67, flex.go:167-172, unnamed/part_009:363-368,
\* center.go:224-230
Blur(c, u) ==
    CASE Kind[c] = "Leaf" -> [u EXCEPT !.n[c].focused = FALSE]
      [] Kind[c] = "Box" -> Blur(Inner[c], [u EXCEPT !.n[c].focused = FALSE])
      [] Kind[c] = "Flex" ->
            IF u.n[c].fchild # NoChild
            THEN [Blur(u.n[c].fchild.target, u) EXCEPT !.n[c].fchild = NoChild]
            ELSE u
      [] Kind[c] = "Form" ->
            LET u1 == IF u.n[c].fitem # "nil" THEN setFocused(c, "nil", u) ELSE u
            IN [u1 EXCEPT !.n[c].focusReceived = FALSE]
      [] Kind[c] = "Centerer" -> Blur(Inner[c], [u EXCEPT !.n[c].childFocused = FALSE])

\* unnamed/part_009:313-331
setFocused(g, item, u) ==
    LET u1 == IF u.n[g].fitem # "nil" THEN Blur(u.n[g].fitem, u) ELSE u
        u2 == [u1 EXCEPT !.n[g].fitem = item]
    IN IF u2.n[g].focusReceived /\ item # "nil" THEN Focus(item, u2) ELSE u2

\* flex.go:127-134 under go 1.18 (unnamed/part_003:3): child is one variable for
\* the whole loop, so flex.focused, that points to it, ends as the last child.
SetFocusedOf(c, comp, u) ==
    LET kids == u.n[c].children
    IN IF \E i \in 1..Len(kids) : kids[i].target = comp
       THEN [Focus(comp, u) EXCEPT !.n[c].fchild = kids[Len(kids)]]
       ELSE u

\* A FocusNextItem that walks the items backwards.
FocusNextItemBackwards(g, u) ==
    LET items == u.n[g].items
        at == {i \in 2..Len(items) : u.n[g].fitem = items[i]}
    IN IF at # {}
       THEN setFocused(g, items[(CHOOSE i \in at : \A j \in at : i >= j) - 1], u)
       ELSE IF items = <<>> THEN [u EXCEPT !.panic = TRUE]
       ELSE setFocused(g, items[Len(items)], u)

\* form.go:34-52; indexing an empty items panics.
FocusNextItem(g, u) ==
    LET items == u.n[g].items
        at == {i \in 1..(Len(items) - 1) : u.n[g].fitem = items[i]}
    IN IF at # {}
       THEN setFocused(g, items[(CHOOSE i \in at : \A j \in at : i <= j) + 1], u)
       ELSE IF items = <<>> THEN [u EXCEPT !.panic = TRUE]
       ELSE setFocused(g, items[1], u)

FocusPreviousItem(g, u) ==
    LET items == u.n[g].items
        at == {i \in 2..Len(items) : u.n[g].fitem = items[i]}
    IN IF at # {}
       THEN setFocused(g, items[(CHOOSE i \in at : \A j \in at : i >= j) - 1], u)
       ELSE IF items = <<>> THEN [u EXCEPT !.panic = TRUE]
       ELSE setFocused(g, items[Len(items)], u)

\* The targets of the children of a Flex or a Grid, in order.
Targets(c, u) ==
    IF Kind[c] = "Flex"
    THEN [i \in 1..Len(u.n[c].children) |-> u.n[c].children[i].target]
    ELSE u.n[c].children

\* The first child whose screen IsInArea (flex.go:141-142, unnamed/part_009:337-338),
\* 0 if there is none.
FirstInArea(c, u, x, y) ==
    LET ts == Targets(c, u)
        hits == {i \in 1..Len(ts) : IsInArea(u.n[ts[i]].screen, x, y)}
    IN IF hits = {} THEN 0 ELSE CHOOSE i \in hits : \A j \in hits : i <= j

\* A Flex or a Grid gives the mouse event evt to its child to ("nil": to none);
\* inside are its children whose rectangle holds the position of the event.
Routed(u, c, to, evt) ==
    LET ts == Targets(c, u)
        inside == {ts[i] : i \in {j \in 1..Len(ts) : InRectangle(u.n[ts[j]].screen, evt.x, evt.y)}}
    IN [u EXCEPT !.route = Append(@, [c |-> c, to |-> to, inside |-> inside])]

RECURSIVE OnMouseEvent(_, _, _, _)

\* flex.go:136-163
FlexOnMouseEvent(c, evt, h, u) ==
    LET f == u.n[c].fchild
        i == FirstInArea(c, u, evt.x, evt.y)
    IN IF f # NoChild /\ IsInArea(u.n[f.target].screen, evt.x, evt.y)
       THEN LET sc == u.n[f.target].screen
            IN OnMouseEvent(f.target, OffsetMouseEvent(evt, -sc.OffsetX, -sc.OffsetY), h,
                            Routed(u, c, f.target, evt))
       ELSE IF i # 0
       THEN LET child == u.n[c].children[i]
                sc == u.n[child.target].screen
                ub == IF f # NoChild THEN Blur(f.target, u) ELSE u
                u1 == IF IsClick(evt)
                      THEN Focus(child.target, [ub EXCEPT !.n[c].fchild = child])
                      ELSE u
                r == OnMouseEvent(child.target,
                                  OffsetMouseEvent(evt, -sc.OffsetX, -sc.OffsetY), h,
                                  Routed(u1, c, child.target, evt))
            IN Ret(r.u, r.ret \/ IsClick(evt))
       ELSE IF IsClick(evt) /\ f # NoChild
       THEN Ret([Blur(f.target, Routed(u, c, "nil", evt)) EXCEPT !.n[c].fchild = NoChild], TRUE)
       ELSE Ret(Routed(u, c, "nil", evt), FALSE)

\* unnamed/part_009:332-354
GridOnMouseEvent(c, evt, h, u) ==
    LET f == u.n[c].fitem
        i == FirstInArea(c, u, evt.x, evt.y)
    IN IF f # "nil" /\ IsInArea(u.n[f].screen, evt.x, evt.y)
       THEN LET sc == u.n[f].screen
            IN OnMouseEvent(f, OffsetMouseEvent(evt, -sc.OffsetX, -sc.OffsetY), h,
                            Routed(u, c, f, evt))
       ELSE IF i # 0
       THEN LET child == u.n[c].children[i]
                sc == u.n[child].screen
                u1 == IF IsClick(evt) THEN setFocused(c, child, u) ELSE u
                r == OnMouseEvent(child, OffsetMouseEvent(evt, -sc.OffsetX, -sc.OffsetY), h,
                                  Routed(u1, c, child, evt))
            IN Ret(r.u, r.ret \/ IsClick(evt))
       ELSE IF IsClick(evt) /\ f # "nil"
       THEN Ret(setFocused(c, "nil", Routed(u, c, "nil", evt)), TRUE)
       ELSE Ret(Routed(u, c, "nil", evt), FALSE)

\* center.go:232-256
CentererOnMouseEvent(c, evt, h, u) ==
    LET sc == u.n[Inner[c]].screen
        x == evt.x - sc.OffsetX
        y == evt.y - sc.OffsetY
        nd == u.n[c]
    IN IF x < 0 \/ y < 0 \/ x > sc.Width \/ y > sc.Height
       THEN IF IsClick(evt)
            THEN Ret(IF nd.alwaysFocusChild /\ ~nd.childFocused
                     THEN [Focus(Inner[c], u) EXCEPT !.n[c].childFocused = TRUE]
                     ELSE IF ~nd.alwaysFocusChild /\ nd.childFocused
                     THEN Blur(c, u)
                     ELSE u, TRUE)
            ELSE Ret(u, FALSE)
       ELSE LET focusChanged == ~nd.childFocused /\ IsClick(evt)
                u1 == IF focusChanged
                      THEN [Focus(Inner[c], u) EXCEPT !.n[c].childFocused = TRUE]
                      ELSE u
                r == OnMouseEvent(Inner[c], OffsetMouseEvent(evt, -sc.OffsetX, -sc.OffsetY),
                                  h, u1)
            IN Ret(r.u, r.ret \/ focusChanged)

\* unnamed/part_001:214-232
BoxOnMouseEvent(c, evt, h, u) ==
    LET event == IF u.n[c].border THEN OffsetMouseEvent(evt, -1, -1) ELSE evt
        sc == u.n[Inner[c]].screen
    IN IF event.x < 0 \/ event.y < 0 \/ event.x > sc.Width \/ event.y > sc.Height
       THEN Ret(u, FALSE)
       ELSE OnMouseEvent(Inner[c], event, h, u)

\* The OnMouseEvent of component c; h is what the handler of the leaf that the
\* event reaches returns.
OnMouseEvent(c, evt, h, u) ==
    CASE Kind[c] = "Leaf" -> Ret(u, h)
      [] Kind[c] = "Box" -> BoxOnMouseEvent(c, evt, h, u)
      [] Kind[c] = "Flex" -> FlexOnMouseEvent(c, evt, h, u)
      [] Kind[c] = "Form" -> GridOnMouseEvent(c, evt, h, u)
      [] Kind[c] = "Centerer" -> CentererOnMouseEvent(c, evt, h, u)

RECURSIVE OnKeyEvent(_, _, _, _)

\* A Form that goes to the next item after Submit whatever Submit returns.
FormOnKeyEventAlwaysNext(g, key, h, u) ==
    LET f == u.n[g].fitem
    IN CASE key = "KeyTab" -> Ret(FocusNextItem(g, u), TRUE)
         [] key = "KeyBacktab" -> Ret(FocusPreviousItem(g, u), TRUE)
         [] key = "KeyEnter" /\ f \in FormItems ->
               Ret(FocusNextItem(g, [u EXCEPT !.keys = Append(@, f)]), TRUE)
         [] OTHER -> IF f # "nil" THEN OnKeyEvent(f, key, h, u) ELSE Ret(u, FALSE)

\* form.go:71-92 and unnamed/part_009:299-304
FormOnKeyEvent(g, key, h, u) ==
    LET f == u.n[g].fitem
    IN CASE key = "KeyTab" -> Ret(FocusNextItem(g, u), TRUE)
         [] key = "KeyBacktab" -> Ret(FocusPreviousItem(g, u), TRUE)
         [] key = "KeyEnter" /\ f \in FormItems ->
               LET u1 == [u EXCEPT !.keys = Append(@, f)]
               IN IF h THEN Ret(FocusNextItem(g, u1), TRUE) ELSE Ret(u1, FALSE)
         [] OTHER -> IF f # "nil" THEN OnKeyEvent(f, key, h, u) ELSE Ret(u, FALSE)

\* The OnKeyEvent of component c (unnamed/part_001:188-199, flex.go:113-118,
\* center.go:210-212); h is what the leaf that the key reaches returns.
OnKeyEvent(c, key, h, u0) ==
    LET u == [u0 EXCEPT !.keys = Append(@, c)]
    IN CASE Kind[c] = "Leaf" -> Ret(u, h)
         [] Kind[c] = "Box" -> OnKeyEvent(Inner[c], key, h, u)
         [] Kind[c] = "Flex" ->
               IF u.n[c].fchild # NoChild
               THEN OnKeyEvent(u.n[c].fchild.target, key, h, u)
               ELSE Ret(u, FALSE)
         [] Kind[c] = "Form" -> FormOnKeyEvent(c, key, h, u)
         [] Kind[c] = "Centerer" -> OnKeyEvent(Inner[c], key, h, u)

RECURSIVE OnPasteEvent(_, _, _)

\* The OnPasteEvent of component c (unnamed/part_001:201-212, flex.go:120-125,
\* unnamed/part_009:306-311, center.go:258-260).
OnPasteEvent(c, h, u0) ==
    LET u == [u0 EXCEPT !.keys = Append(@, c)]
    IN CASE Kind[c] = "Leaf" -> Ret(u, h)
         [] Kind[c] \in {"Box", "Centerer"} -> OnPasteEvent(Inner[c], h, u)
         [] Kind[c] = "Flex" ->
               IF u.n[c].fchild # NoChild
               THEN OnPasteEvent(u.n[c].fchild.target, h, u)
               ELSE Ret(u, FALSE)
         [] Kind[c] = "Form" ->
               IF u.n[c].fitem # "nil"
               THEN OnPasteEvent(u.n[c].fitem, h, u)
               ELSE Ret(u, FALSE)

RECURSIVE SumSeq(_)
SumSeq(s) == IF s = <<>> THEN 0 ELSE Head(s) + SumSeq(Tail(s))

\* unnamed/part_009:227-238
pnSum(arr) ==
    [positive |-> SumSeq([i \in 1..Len(arr) |-> IF arr[i] < 0 THEN 0 ELSE arr[i]]),
     negative |-> SumSeq([i \in 1..Len(arr) |-> IF arr[i] < 0 THEN -arr[i] ELSE 0])]

\* A fillDynamic without the test of lines 241-243.
fillDynamicDividesAlways(arr, size, dynamicItems) == TRUE

\* unnamed/part_009:241-245: fillDynamic goes on to the divisions by
\* dynamicItems.
fillDynamicDivides(arr, size, dynamicItems) == dynamicItems # 0

\* unnamed/part_009:240-259: the first remainder dynamic entries get one more.
fillDynamic(arr, size, dynamicItems) ==
    IF ~fillDynamicDivides(arr, size, dynamicItems)
    THEN arr
    ELSE LET part == GoDiv(size, dynamicItems)
             remainder == GoRem(size, dynamicItems)
             before(i) == Cardinality({j \in 1..(i - 1) : arr[j] < 0})
         IN [i \in 1..Len(arr) |->
               IF arr[i] < 0
               THEN part * (-arr[i]) + (IF before(i) < remainder THEN 1 ELSE 0)
               ELSE arr[i]]

\* unnamed/part_009:261-273: OnResize panics if fillDynamic divides by zero or
\* if the cell of a child is not within the columns and the rows.
OnResizePanics(g, width, height, u) ==
    LET cw == u.n[g].columnWidths
        rh == u.n[g].rowHeights
    IN \/ fillDynamicDivides(cw, width - pnSum(cw).positive, pnSum(cw).negative)
            /\ pnSum(cw).negative = 0
       \/ fillDynamicDivides(rh, height - pnSum(rh).positive, pnSum(rh).negative)
            /\ pnSum(rh).negative = 0
       \/ \E i \in 1..Len(u.n[g].children) :
             LET cell == u.n[g].cells[u.n[g].children[i]]
             IN \/ cell.relX + cell.relWidth > Len(cw)
                \/ cell.relY + cell.relHeight > Len(rh)

\* unnamed/part_009:261-273
OnResize(g, width, height, u) ==
    LET cw == u.n[g].columnWidths
        rh == u.n[g].rowHeights
        columnWidths == fillDynamic(cw, width - pnSum(cw).positive, pnSum(cw).negative)
        rowHeights == fillDynamic(rh, height - pnSum(rh).positive, pnSum(rh).negative)
        kids == {u.n[g].children[i] : i \in 1..Len(u.n[g].children)}
        place(k) ==
            LET cell == u.n[g].cells[k]
            IN NewProxy(pnSum(SubSeq(columnWidths, 1, cell.relX)).positive,
                        pnSum(SubSeq(rowHeights, 1, cell.relY)).positive,
                        pnSum(SubSeq(columnWidths, cell.relX + 1,
                                     cell.relX + cell.relWidth)).positive,
                        pnSum(SubSeq(rowHeights, cell.relY + 1,
                                     cell.relY + cell.relHeight)).positive)
    IN IF OnResizePanics(g, width, height, u)
       THEN [u EXCEPT !.panic = TRUE]
       ELSE [u EXCEPT !.n = [k \in Nodes |->
               IF k \in kids THEN [u.n[k] EXCEPT !.screen = place(k)]
               ELSE IF k = g THEN [u.n[k] EXCEPT !.prevWidth = width, !.prevHeight = height]
               ELSE u.n[k]]]

RECURSIVE Draw(_, _, _, _)
RECURSIVE FlexDrawFrom(_, _, _, _, _, _)
RECURSIVE GridDrawFrom(_, _, _, _, _)

\* flex.go:84-110: the loop over the children from number i on, then the
\* focused child.  The division of line 89 by relParts = 0 panics.
FlexDrawFrom(c, i, offset, width, height, u) ==
    LET nd == u.n[c]
        kids == nd.children
        sizes == [j \in 1..Len(kids) |-> kids[j].size]
        total == IF nd.direction = "FlexRow" THEN height ELSE width
        relTotalSize == total - pnSum(sizes).positive
        relParts == pnSum(sizes).negative
        f == nd.fchild
    IN IF i > Len(kids)
       THEN IF f # NoChild
            THEN LET sz == ProxySize(u.n[f.target].screen, width, height)
                 IN Draw(f.target, sz[1], sz[2], u)
            ELSE u
       ELSE IF kids[i].size < 0 /\ relParts = 0
       THEN [u EXCEPT !.panic = TRUE]
       ELSE LET child == kids[i]
                size == IF child.size < 0
                        THEN GoDiv(relTotalSize * (-child.size), relParts)
                        ELSE child.size
                sc == IF nd.direction = "FlexRow"
                      THEN NewProxy(0, offset, width, size)
                      ELSE NewProxy(offset, 0, size, height)
                sz == ProxySize(sc, width, height)
                u1 == [u EXCEPT !.n[child.target].screen = sc]
                u2 == IF f = NoChild \/ child # f
                      THEN Draw(child.target, sz[1], sz[2], u1)
                      ELSE u1
            IN FlexDrawFrom(c, i + 1, offset + size, width, height, u2)

\* unnamed/part_009:286-296
GridDrawFrom(g, i, width, height, u) ==
    LET kids == u.n[g].children
        f == u.n[g].fitem
    IN IF i > Len(kids)
       THEN IF f # "nil"
            THEN LET sz == ProxySize(u.n[f].screen, width, height)
                 IN Draw(f, sz[1], sz[2], u)
            ELSE u
       ELSE LET sz == ProxySize(u.n[kids[i]].screen, width, height)
                u1 == IF f = "nil" \/ kids[i] # f
                      THEN Draw(kids[i], sz[1], sz[2], u)
                      ELSE u
            IN GridDrawFrom(g, i + 1, width, height, u1)

\* A Draw that lays the children out again only after addChild, not when the
\* size of the screen has changed.
GridDrawForcedOnly(g, width, height, u) ==
    LET u1 == IF u.n[g].forceResize THEN OnResize(g, width, height, u) ELSE u
    IN GridDrawFrom(g, 1, width, height, [u1 EXCEPT !.n[g].forceResize = FALSE])

\* unnamed/part_009:275-285 and form.go:30-32
GridDraw(g, width, height, u) ==
    LET nd == u.n[g]
        u1 == IF nd.forceResize \/ nd.prevWidth # width \/ nd.prevHeight # height
              THEN OnResize(g, width, height, u)
              ELSE u
    IN GridDrawFrom(g, 1, width, height, [u1 EXCEPT !.n[g].forceResize = FALSE])

\* unnamed/part_001:163-186
BoxDraw(c, width, height, u) ==
    LET border == u.n[c].border /\ width >= 2 /\ height >= 2
        sc == [u.n[Inner[c]].screen EXCEPT
                 !.Width = IF border THEN width - 2 ELSE width,
                 !.Height = IF border THEN height - 2 ELSE height]
        sz == ProxySize(sc, width, height)
    IN Draw(Inner[c], sz[1], sz[2], [u EXCEPT !.n[Inner[c]].screen = sc])

\* center.go:196-208
CentererDraw(c, totalWidth, totalHeight, u) ==
    LET old == u.n[Inner[c]].screen
        paddingX == GoDiv(totalWidth - old.Width, 2)
        paddingY == GoDiv(totalHeight - old.Height, 2)
        sc == [old EXCEPT !.OffsetX = IF paddingX >= 0 THEN paddingX ELSE @,
                          !.OffsetY = IF paddingY >= 0 THEN paddingY ELSE @]
        sz == ProxySize(sc, totalWidth, totalHeight)
    IN Draw(Inner[c], sz[1], sz[2], [u EXCEPT !.n[Inner[c]].screen = sc])

\* The Draw of component c on a screen whose Size() is (width, height).
Draw(c, width, height, u0) ==
    LET u == [u0 EXCEPT !.draws = Append(@, c)]
    IN CASE Kind[c] = "Leaf" -> u
         [] Kind[c] = "Box" -> BoxDraw(c, width, height, u)
         [] Kind[c] = "Flex" -> FlexDrawFrom(c, 1, 0, width, height, u)
         [] Kind[c] = "Form" -> GridDraw(c, width, height, u)
         [] Kind[c] = "Centerer" -> CentererDraw(c, width, height, u)

\* The sizes the root surface takes: the full one and one too small for the
\* fixed child of F.
Surfaces == {<<MaxWidth, MaxHeight>>, <<1, 1>>}
\* The sizes of the surfaces on which the layouts are computed: empty, too
\* small for the fixed children, and with room to spare.
LayoutSurfaces ==
    {<<w, h>> : w \in {0, 1, MaxWidth - 1, MaxWidth, 50}, h \in {MaxHeight, 14}}
MouseKinds == {<<"Button1", FALSE>>, <<"Button1", TRUE>>, <<"ButtonNone", FALSE>>}
TreeKeys == {"KeyTab", "KeyBacktab", "KeyEnter", "KeyRune"}

\* flex.go:45-59: the children of F after AddFixedComponent(A, 2),
\* AddProportionalComponent(G, 1), AddProportionalComponent(C, 1).
SceneChildren == <<FlexChild("A", 2), FlexChild("G", -1), FlexChild("C", -1)>>

\* form.go:54-59 and unnamed/part_009:152-183: the form items, column widths
\* and row heights of G after AddFormItem for B and M.
SceneItems ==
    [items |-> <<"B", "M">>, columns |-> <<-1>>, rows |-> <<-1, -1>>, cells |-> GridCell]
\* form.go:54-59: G after one, two or three calls of AddFormItem, for B, M and
\* N in this order, each extending rowHeights by a proportional row.
FormLists ==
    {[items |-> items, columns |-> <<-1>>, rows |-> [i \in 1..Len(items) |-> -1],
      cells |-> GridCell] :
        items \in {<<"B">>, <<"B", "M">>, <<"B", "M", "N">>}}
\* unnamed/part_009:217-225: G with no child, or with B and M after SetColumns
\* and SetRows with fixed sizes and (negated) weights.
GridSizes == {-2, 0, 3}
\* unnamed/part_009:157-177: the arguments x, y, width, height of createChild.
Cell(x, y, width, height) == [relX |-> x, relY |-> y, relWidth |-> width, relHeight |-> height]
\* B over two columns above M; B and M side by side over two rows; M within
\* the cells of B.
SpanCells ==
    {[GridCell EXCEPT !["B"] = Cell(0, 0, 2, 1), !["M"] = Cell(0, 1, 1, 1)],
     [GridCell EXCEPT !["B"] = Cell(0, 0, 1, 2), !["M"] = Cell(1, 0, 1, 2)],
     [GridCell EXCEPT !["B"] = Cell(0, 0, 2, 2), !["M"] = Cell(1, 1, 1, 1)]}
SpanSizes == {<<-1, 3>>, <<3, -2>>, <<-2, -1>>, <<0, 3>>}
GridLayouts ==
    {[items |-> <<>>, columns |-> <<-1>>, rows |-> <<-1>>, cells |-> GridCell]}
      \cup {[items |-> <<"B", "M">>, columns |-> <<c>>, rows |-> <<r1, r2>>,
              cells |-> GridCell] :
               c \in {-1, 3}, r1 \in GridSizes, r2 \in GridSizes}
      \cup {[items |-> <<"B", "M">>, columns |-> columns, rows |-> rows, cells |-> cells] :
               columns \in SpanSizes, rows \in SpanSizes, cells \in SpanCells}
\* flex.go:45-59: F with no child, or with A and G after AddFixedComponent or
\* AddProportionalComponent.
SizesChildren ==
    {<<>>} \cup {<<FlexChild("A", a), FlexChild("G", g)>> :
                   a \in {-3, 0, 2, 12}, g \in {-3, 0, 2, 12}}

\* flex.go:45-59: the children of F after up to three calls of
\* AddFixedComponent (a size that is not negative) or AddProportionalComponent
\* (a weight, kept negated), for A, G and C in this order.
FlexSizes == {-3, -1, 0, 2, 10, 12}
LayoutChildren ==
    {<<>>}
      \cup {<<FlexChild("A", a)>> : a \in FlexSizes}
      \cup {<<FlexChild("A", a), FlexChild("G", g)>> : a \in FlexSizes, g \in FlexSizes}
      \cup {<<FlexChild("A", a), FlexChild("G", g), FlexChild("C", c)>> :
               a \in FlexSizes, g \in FlexSizes, c \in FlexSizes}

\* The tree after construction: NewFlex and the Add calls that give F one of
\* the child lists kids; NewForm,
\* AddFormItem(B, 0, 0, 1, 1), AddFormItem(M, 0, 1, 1, 1), AddFormItem(N, 0, 2, 1, 1)
\* for the items, and the column widths and row heights, of one of the
\* constructions forms; NewBox(L);
\* Center(D, 1, 1).SetAlwaysFocusChild(always); SetDirection(direction).
InitTree(directions, alwaysFocus, kids, forms, c) ==
    /\ \E direction \in directions, always \in alwaysFocus, children \in kids, form \in forms :
         ui = [n \in Nodes |->
                 CASE n = "F" -> [NewFlex EXCEPT
                                    !.direction = direction,
                                    !.children = children]
                   [] n = "G" -> [NewForm EXCEPT
                                    !.children = form.items, !.items = form.items,
                                    !.columnWidths = form.columns,
                                    !.rowHeights = form.rows,
                                    !.cells = form.cells,
                                    !.forceResize = TRUE]
                   [] n = "B" -> NewBox
                   [] n = "L" -> [NewLeaf EXCEPT !.screen = NewProxy(1, 1, 0, 0)]
                   [] n = "C" -> [Center EXCEPT !.alwaysFocusChild = always]
                   [] n = "D" -> [NewLeaf EXCEPT !.screen = NewProxy(0, 0, 1, 1)]
                   [] OTHER -> NewLeaf]
    /\ surface = <<MaxWidth, MaxHeight>>
    /\ laidOut = FALSE
    /\ calls = c
    /\ panicked = FALSE

\* The tree after a call with result u; drawn tells whether the call drew it.
Commit(u, drawn) ==
    /\ ui' = u.n
    /\ panicked' = u.panic
    /\ laidOut' = (laidOut \/ drawn)
    /\ UNCHANGED <<appVars, screenVars>>

\* unnamed/part_005:171-186: the loop draws the root when a handler returned true.
Handled(r, size) ==
    IF r.ret /\ ~r.u.panic THEN Draw(RootComp, size[1], size[2], r.u) ELSE r.u

\* unnamed/part_005:136-139: a resize event; the loop clears and draws the root.
ResizeTree(size) ==
    /\ ~panicked
    /\ size # surface
    /\ surface' = size
    /\ UNCHANGED calls
    /\ Commit(Draw(RootComp, size[1], size[2], Call(ui)), TRUE)

\* unnamed/part_005:151-152 and 215-217: Redraw(); the loop draws the root.
RedrawTree ==
    /\ ~panicked
    /\ UNCHANGED <<surface, calls>>
    /\ Commit(Draw(RootComp, surface[1], surface[2], Call(ui)), TRUE)

\* unnamed/part_005:133-135: a mouse event at a cell of the terminal.
MouseTree(x, y, kind, h) ==
    /\ ~panicked
    /\ x < surface[1] /\ y < surface[2]
    /\ UNCHANGED <<surface, calls>>
    /\ LET r == OnMouseEvent(RootComp, MouseEvent(x, y, kind[1], kind[2]), h, Call(ui))
       IN Commit(Handled(r, surface), r.ret)

\* unnamed/part_005:110-123: a key event outside a paste.
KeyTree(key, h) ==
    /\ ~panicked
    /\ UNCHANGED <<surface, calls>>
    /\ LET r == OnKeyEvent(RootComp, key, h, Call(ui))
       IN Commit(Handled(r, surface), r.ret /\ ~r.u.panic)

\* unnamed/part_005:124-132: the end of a paste.
PasteTree(h) ==
    /\ ~panicked
    /\ UNCHANGED <<surface, calls>>
    /\ LET r == OnPasteEvent(RootComp, h, Call(ui))
       IN Commit(Handled(r, surface), r.ret)

\* unnamed/part_005:223-235: SetRoot focuses the root.
FocusRoot ==
    /\ ~panicked
    /\ calls > 0
    /\ calls' = calls - 1
    /\ UNCHANGED surface
    /\ Commit(Focus(RootComp, Call(ui)), FALSE)

\* flex.go:167-172 called on the root.
BlurRoot ==
    /\ ~panicked
    /\ calls > 0
    /\ calls' = calls - 1
    /\ UNCHANGED surface
    /\ Commit(Blur(RootComp, Call(ui)), FALSE)

\* flex.go:127-134 called on F.
SetFocused(comp) ==
    /\ ~panicked
    /\ calls > 0
    /\ calls' = calls - 1
    /\ UNCHANGED surface
    /\ Commit(SetFocusedOf("F", comp, Call(ui)), FALSE)

\* form.go:34-42 called on G.
CallFocusNextItem ==
    /\ ~panicked
    /\ calls > 0
    /\ calls' = calls - 1
    /\ UNCHANGED surface
    /\ Commit(FocusNextItem("G", Call(ui)), FALSE)

\* form.go:44-52 called on G.
CallFocusPreviousItem ==
    /\ ~panicked
    /\ calls > 0
    /\ calls' = calls - 1
    /\ UNCHANGED surface
    /\ Commit(FocusPreviousItem("G", Call(ui)), FALSE)

\* A structural change: the rectangles of the last Draw are out of date.
Restructure(nodes) ==
    /\ calls > 0
    /\ calls' = calls - 1
    /\ ui' = nodes
    /\ laidOut' = FALSE
    /\ UNCHANGED <<surface, panicked, appVars, screenVars>>

\* flex.go:61-68 called on F.
FlexRemoveComponent(comp) ==
    /\ ~panicked
    /\ \E i \in 1..Len(ui["F"].children) : ui["F"].children[i].target = comp
    /\ Restructure([ui EXCEPT !["F"].children =
                      SelectSeq(@, LAMBDA child : child.target # comp)])

\* flex.go:45-59 called on F for a component that is not a child of F.  The
\* new flexChild has a screen of its own and so differs from the flexChild
\* flex.focused points to; here it differs from it by its size.
AddFixedComponent(comp, size) ==
    /\ ~panicked
    /\ \A i \in 1..Len(ui["F"].children) : ui["F"].children[i].target # comp
    /\ FlexChild(comp, size) # ui["F"].fchild
    /\ Restructure([ui EXCEPT !["F"].children = Append(@, FlexChild(comp, size)),
                              ![comp].screen = NewProxy(0, 0, 0, 0)])

\* unnamed/part_009:143-150
extend(arr, newSize) == [i \in 1..newSize |-> IF i <= Len(arr) THEN arr[i] ELSE -1]

\* unnamed/part_009:157-190 called on G for a component that is not a child of
\* G: createChild extends the columns and the rows, addChild appends the child.
AddComponent(comp, x, y, width, height) ==
    /\ ~panicked
    /\ \A i \in 1..Len(ui["G"].children) : ui["G"].children[i] # comp
    /\ Restructure([ui EXCEPT
          !["G"].columnWidths = IF x + width >= Len(@) THEN extend(@, x + width) ELSE @,
          !["G"].rowHeights = IF y + height >= Len(@) THEN extend(@, y + height) ELSE @,
          !["G"].children = Append(@, comp),
          !["G"].cells[comp] = Cell(x, y, width, height),
          !["G"].forceResize = TRUE,
          ![comp].screen = NewProxy(0, 0, 0, 0)])

\* unnamed/part_009:201-207 called on G.
SetColumn(col, width) ==
    /\ ~panicked
    /\ Restructure([ui EXCEPT
          !["G"].columnWidths =
              [(IF col >= Len(@) THEN extend(@, col + 1) ELSE @) EXCEPT ![col + 1] = width]])

\* unnamed/part_009:209-215 called on G.
SetRow(row, height) ==
    /\ ~panicked
    /\ Restructure([ui EXCEPT
          !["G"].rowHeights =
              [(IF row >= Len(@) THEN extend(@, row + 1) ELSE @) EXCEPT ![row + 1] = height]])

\* unnamed/part_009:217-220 called on G.
SetColumns(columns) ==
    /\ ~panicked
    /\ Restructure([ui EXCEPT !["G"].columnWidths = columns])

\* unnamed/part_009:222-225 called on G.
SetRows(rows) ==
    /\ ~panicked
    /\ Restructure([ui EXCEPT !["G"].rowHeights = rows])

\* unnamed/part_009:192-199 called on G.
GridRemoveComponent(comp) ==
    /\ ~panicked
    /\ \E i \in 1..Len(ui["G"].children) : ui["G"].children[i] = comp
    /\ Restructure([ui EXCEPT !["G"].children = SelectSeq(@, LAMBDA child : child # comp)])

\* form.go:61-69 called on G.
RemoveFormItem(comp) ==
    /\ ~panicked
    /\ \E i \in 1..Len(ui["G"].items) : ui["G"].items[i] = comp
    /\ Restructure([ui EXCEPT !["G"].items = SelectSeq(@, LAMBDA item : item # comp),
                              !["G"].children = SelectSeq(@, LAMBDA child : child # comp)])

NextTree ==
    \/ \E size \in Surfaces : ResizeTree(size)
    \/ RedrawTree
    \/ \E x \in 0..(MaxWidth - 1), y \in 0..(MaxHeight - 1), kind \in MouseKinds,
          h \in BOOLEAN : MouseTree(x, y, kind, h)
    \/ \E key \in TreeKeys, h \in BOOLEAN : KeyTree(key, h)
    \/ \E h \in BOOLEAN : PasteTree(h)
    \/ FocusRoot
    \/ BlurRoot
    \/ \E comp \in {"A", "G", "C"} : SetFocused(comp)
    \/ CallFocusNextItem
    \/ CallFocusPreviousItem
    \/ \E comp \in {"A", "G"} : FlexRemoveComponent(comp)
    \/ \E comp \in {"M"} : GridRemoveComponent(comp)
    \/ \E comp \in {"B", "M"} : RemoveFormItem(comp)

(***************************************************************************)
(* Specifications                                                          *)
(***************************************************************************)
NoQuota == Quota(0, {}, 0, 0, 0)

\* The state after construction: an Application with quota q of inputs, no
\* ProxyScreen chain, and the tree with the given choices of SetDirection and
\* SetAlwaysFocusChild.
Init(q, roots, directions, alwaysFocus, kids, forms, c) ==
    /\ InitApp(q)
    /\ root \in roots
    /\ InitScreen
    /\ InitTree(directions, alwaysFocus, kids, forms, c)

\* The run loop fed with keys and paste markers.
SpecPaste ==
    Init(Quota(PasteEvents, PasteKinds, 1, 1, 1), {"none", "r1"}, {"FlexColumn"}, {FALSE},
         {SceneChildren}, {SceneItems}, 0)
      /\ [][NextApp]_vars

\* The run loop with several callers of Stop and programmatic updates.
SpecStop ==
    Init(Quota(StopEvents, StopKinds, MaxUpdates, MaxStarts, MaxStops), {"none", "r1"},
         {"FlexColumn"}, {FALSE}, {SceneChildren}, {SceneItems}, 0)
      /\ [][NextApp]_vars

\* The Go scheduler runs every task that can take a step: the loop task, and
\* every caller of Stop once it has entered Stop.
LoopStep ==
    \/ StartMakeWait \/ TakeEvent \/ (\E h \in BOOLEAN : HandlerReturn(h))
    \/ TakeUpdate \/ SuspendResume \/ TakeStop \/ CheckStop \/ DrawDone
    \/ DeferClearScreen \/ DeferClose \/ DeferFini

SpecStopFair ==
    /\ SpecStop
    /\ WF_vars(LoopStep)
    /\ \A t \in StopCallers : WF_vars(StopWait(t)) /\ WF_vars(StopReturn(t))

\* The run loop started, stopped and started again, with no event.
Restarts == 2
NextRestart ==
    \/ StartBegin
    \/ StartMakeWait
    \/ Tick
    \/ TakeStop
    \/ CheckStop
    \/ DrawDone
    \/ DeferClearScreen
    \/ DeferClose
    \/ DeferFini
    \/ \E t \in Callers : StopSend(t)
    \/ \E t \in Callers : StopWait(t)
    \/ \E t \in Callers : StopReturn(t)
SpecRestart ==
    Init(Quota(0, {}, 0, Restarts, MaxStops), {"r1"}, {"FlexColumn"}, {FALSE},
         {SceneChildren}, {SceneItems}, 0)
      /\ [][NextRestart]_vars

\* The run loop fed with terminal events of every type, and callers of Stop.
SpecEvents ==
    Init(Quota(LoopEvents, TermEvents, MaxUpdates, 1, 1), {"r1"}, {"FlexColumn"}, {FALSE},
         {SceneChildren}, {SceneItems}, 0)
      /\ [][NextApp]_vars

\* The run loop fed with key and mouse events.  The scheduler is fair to the
\* loop task, and the select of Start, which picks among its ready cases at
\* random, does not pass over a waiting event forever.
QueueKinds == {KeyA, MouseEv}
SpecQueue ==
    Init(Quota(LoopEvents, QueueKinds, MaxUpdates, 1, 1), {"r1"}, {"FlexColumn"}, {FALSE},
         {SceneChildren}, {SceneItems}, 0)
      /\ [][NextApp]_vars

SpecQueueFair ==
    /\ SpecQueue
    /\ WF_vars(LoopStep)
    /\ SF_vars(TakeEvent)

\* Chains of ProxyScreens and the calls made on the innermost one.
SpecScreen ==
    Init(NoQuota, {"r1"}, {"FlexColumn"}, {FALSE}, {SceneChildren}, {SceneItems}, 0) /\ [][NextScreen]_vars

\* The component tree under events and programmatic calls.
SpecTree ==
    Init(NoQuota, {"r1"}, {"FlexColumn"}, BOOLEAN, {SceneChildren}, {SceneItems}, MaxCalls)
      /\ [][NextTree]_vars

\* The Form G, the only child of F, under Tab, Shift-Tab and Enter, calls that
\* focus it and calls that remove its items.
FormKeys == {"KeyTab", "KeyBacktab", "KeyEnter"}
NextForm ==
    \/ RedrawTree
    \/ \E key \in FormKeys, h \in BOOLEAN : KeyTree(key, h)
    \/ \E comp \in {"G"} : SetFocused(comp)
    \/ BlurRoot
    \/ \E comp \in {"B", "M", "N"} : RemoveFormItem(comp)

SpecForm ==
    Init(NoQuota, {"r1"}, {"FlexColumn"}, {FALSE}, {<<FlexChild("G", -1)>>}, FormLists,
         FormCalls)
      /\ [][NextForm]_vars

\* Layouts: F in both directions with every child list of LayoutChildren, drawn
\* on surfaces of the sizes LayoutSurfaces.
NextLayout ==
    \/ \E size \in LayoutSurfaces : ResizeTree(size)
    \/ RedrawTree

SpecLayout ==
    Init(NoQuota, {"r1"}, {"FlexRow", "FlexColumn"}, {FALSE}, LayoutChildren, {SceneItems}, 0)
      /\ [][NextLayout]_vars

\* F under clicks, and calls that remove a child and add it again.
DrawCalls == 2
NextDraw ==
    \/ RedrawTree
    \/ \E x \in 0..(MaxWidth - 1), y \in 0..(MaxHeight - 1), h \in BOOLEAN :
          MouseTree(x, y, <<"Button1", FALSE>>, h)
    \/ \E comp \in {"A", "G", "C"} : FlexRemoveComponent(comp)
    \/ \E comp \in {"A", "G"}, size \in {3} : AddFixedComponent(comp, size)
SpecDraw ==
    Init(NoQuota, {"r1"}, {"FlexColumn"}, {FALSE}, {SceneChildren}, {SceneItems}, DrawCalls)
      /\ [][NextDraw]_vars

\* The Grid G, built from NewGrid by calls of AddComponent, SetColumn, SetRow,
\* SetColumns and SetRows, and drawn in between.
GridCalls == 3
NextGrid ==
    \/ \E size \in Surfaces : ResizeTree(size)
    \/ RedrawTree
    \/ \E comp \in {"B", "M"}, x \in {0, 1}, width \in {1, 2}, height \in {1, 2} :
          AddComponent(comp, x, 0, width, height)
    \/ \E col \in {0, 2} : SetColumn(col, 3)
    \/ \E row \in {0, 2} : SetRow(row, -2)
    \/ \E columns \in {<<>>, <<3>>} : SetColumns(columns)
    \/ \E rows \in {<<-1>>} : SetRows(rows)
SpecGrid ==
    Init(NoQuota, {"r1"}, {"FlexColumn"}, {FALSE}, {<<FlexChild("G", -1)>>},
         {[items |-> <<>>, columns |-> <<-1>>, rows |-> <<-1>>, cells |-> GridCell]}, GridCalls)
      /\ [][NextGrid]_vars

\* Layouts of F and of G for fixed sizes and weights of every sign, on the
\* surfaces LayoutSurfaces.
SpecSizes ==
    Init(NoQuota, {"r1"}, {"FlexRow", "FlexColumn"}, {FALSE}, SizesChildren, GridLayouts, 0)
      /\ [][NextLayout]_vars

(***************************************************************************)
(* Claims                                                                  *)
(***************************************************************************)

\* The characters of a sequence of key events: the rune each event carries.
KeyChars(ks) == [i \in 1..Len(ks) |-> ks[i].rune]

\* The text a bracketed paste composes from key events: the rune of a KeyRune
\* event, a line feed for KeyEnter, nothing for any other key.
RECURSIVE PasteText(_)
PasteText(ks) ==
    IF ks = <<>> THEN <<>>
    ELSE LET k == Head(ks) IN
         (IF k.key = "KeyRune" THEN <<k.rune>>
          ELSE IF k.key = "KeyEnter" THEN <<RuneLF>> ELSE <<>>) \o PasteText(Tail(ks))

\* The loop iteration took the paste-end marker that closes a composition.
PasteEndTurn == turn.ev = PasteEv(FALSE) /\ turn.pasting

\* The loop iteration took a key event during a composition.
PasteKeyTurn == turn.ev.type = "key" /\ turn.pasting

\* C1 (as stated): a paste-start, N keys and a paste-end give the root exactly one
\* OnPasteEvent whose text is the concatenation of the N keys' characters, and no
\* OnKeyEvent for any of the N keys.
C1_PasteTextIsKeyChars ==
    /\ PasteEndTurn => /\ turn.calls = 1
                       /\ turn.call.type = "paste"
                       /\ turn.call.text = KeyChars(turn.keys)
    /\ PasteKeyTurn => turn.calls = 0

\* C1 (amended): when the loop takes the paste-end of a paste-start, N keys,
\* paste-end sequence, the root gets exactly one OnPasteEvent whose text is, in
\* arrival order, the rune of every KeyRune event and a line feed for every
\* KeyEnter event (other keys add nothing), and no OnKeyEvent for any of the N keys.
C1_PasteComposition ==
    /\ PasteEndTurn => /\ turn.calls = 1
                       /\ turn.call.type = "paste"
                       /\ turn.call.text = PasteText(turn.keys)
                       /\ pc = "handler" => cur = turn.call
    /\ PasteKeyTurn => turn.calls = 0 /\ pc # "handler"

C1_Witness ==
    /\ PasteEndTurn
    /\ pc = "handler"
    /\ turn.keys = <<KeyEnter, KeyA>>
    /\ cur.text = <<RuneLF, KeyA.rune>>

\* C2: when a call of Stop has returned, the loop has exited and the Fini of its
\* screen has completed.
C2_StopReturnsAfterFini ==
    \A t \in StopCallers :
        stopPc[t] = "returned" =>
            /\ stopGen[t] \in closed
            /\ fini[stopGen[t]] >= 1

\* C3: a Stop called from inside a key handler that the loop task is executing
\* returns, and the loop terminates.
C3_StopInHandlerReturns ==
    (stopPc[LoopTask] = "waiting") ~> (stopPc[LoopTask] = "returned" /\ pc = "stopped")

\* C4: two tasks that call Stop while the loop runs both return once the loop has
\* exited (not before, and nothing blocks them after); the loop's teardown runs
\* once, with exactly one Fini of its screen.
C4_TwoStops ==
    /\ \A g \in DOMAIN fini : fini[g] <= 1
    /\ \A g \in DOMAIN fini : (g < gen \/ (g = gen /\ pc = "stopped")) => fini[g] = 1
    /\ \A t \in Callers :
          /\ stopPc[t] = "returned" =>
                /\ stopGen[t] \in closed
                /\ stopGen[t] = gen => pc \in {"defer3", "stopped", "starting"}
          /\ (stopPc[t] = "waiting" /\ stopGen[t] \in closed) => ENABLED StopReturn(t)
          /\ stopPc[t] = "sent" => ENABLED StopWait(t)

C4_Witness ==
    /\ \A t \in Callers : stopPc[t] = "returned" /\ stopGen[t] = 1
    /\ pc = "stopped"
    /\ fini[1] = 1

\* C5: every call of a handler or of Draw of the root is made by the loop task,
\* so at most one of them is executing at any time.
C5_SingleLoopTask ==
    /\ inRoot \subseteq {LoopTask}
    /\ Cardinality(inRoot) <= 1
    /\ LoopTask \in inRoot <=> pc \in {"handler", "draw"}

C5_Witness ==
    /\ pc = "draw"
    /\ inRoot = {LoopTask}
    /\ updates # <<>>
    /\ events # <<>>

\* ---- what the tree would do in the current state ----

\* The children of container p, from its fields.
ChildrenOf(p) ==
    CASE Kind[p] \in {"Box", "Centerer"} -> {Inner[p]}
      [] Kind[p] \in {"Flex", "Form"} ->
            {Targets(p, Call(ui))[i] : i \in 1..Len(Targets(p, Call(ui)))}
      [] OTHER -> {}

\* The components that are in the tree under the root.
RECURSIVE Attached(_)
Attached(n) == n = RootComp \/ (n \in ChildrenOf(ParentOf[n]) /\ Attached(ParentOf[n]))

\* The component and the containers it was added to, up to the root.
RECURSIVE PathUp(_)
PathUp(n) == IF n = RootComp THEN {n} ELSE {n} \cup PathUp(ParentOf[n])

\* The child a Flex or Form has as its focused child, "nil" if none.
FocusedChildOf(p) == IF Kind[p] = "Flex" THEN ui[p].fchild.target ELSE ui[p].fitem

FocusedLeaves == {l \in Leaves : Attached(l) /\ ui[l].focused}

SeqRange(s) == {s[i] : i \in 1..Len(s)}
Positions == {<<x, y>> \in (0..(MaxWidth - 1)) \X (0..(MaxHeight - 1)) :
                x < surface[1] /\ y < surface[2]}
RouteNow(p, kind) ==
    OnMouseEvent(RootComp, MouseEvent(p[1], p[2], kind[1], kind[2]), TRUE, Call(ui)).u.route
DrawnNow == SeqRange(Draw(RootComp, surface[1], surface[2], Call(ui)).draws)
KeyedNow(key) == SeqRange(OnKeyEvent(RootComp, key, TRUE, Call(ui)).u.keys)
PastedNow == SeqRange(OnPasteEvent(RootComp, TRUE, Call(ui)).u.keys)

\* C6: after any sequence of mouse events and programmatic focus calls, at
\* most one leaf of the tree is focused, and every Flex or Form above that leaf
\* has the child on the path to the leaf as its focused child.
C6_FocusInvariant ==
    /\ Cardinality(FocusedLeaves) <= 1
    /\ \A l \in FocusedLeaves : \A n \in PathUp(l) \ {RootComp} :
          Kind[ParentOf[n]] \in {"Flex", "Form"} => FocusedChildOf(ParentOf[n]) = n

\* C7: once the tree is drawn, a Flex or Grid gives a mouse event only to the
\* child whose rectangle of that Draw holds the position (offset <= p <
\* offset + size on both axes), and to no child when no rectangle holds it.
C7_HitTestMatchesDraw ==
    laidOut =>
        \A p \in Positions, kind \in MouseKinds :
            \A i \in 1..Len(RouteNow(p, kind)) :
                LET e == RouteNow(p, kind)[i]
                IN IF e.to = "nil" THEN e.inside = {} ELSE e.to \in e.inside

\* C8: SetCell, SetContent, GetContent and ShowCursor at local (x, y) of a
\* ProxyScreen reach its parent, at (x + OffsetX, y + OffsetY), exactly when
\* 0 <= x < Width and 0 <= y < Height; a dropped GetContent returns the empty
\* content.
C8_CallsAreBoundsChecked ==
    probe.op \in CellOps =>
        LET ss == chain[Len(chain)]
            inside == /\ 0 <= probe.x /\ probe.x < ss.Width
                      /\ 0 <= probe.y /\ probe.y < ss.Height
        IN /\ probe.reached <=> inside
           /\ probe.reached => /\ probe.px = probe.x + ss.OffsetX
                               /\ probe.py = probe.y + ss.OffsetY
           /\ (probe.op = "GetContent" /\ ~inside) => probe.ret = "empty"

\* The rectangle of ProxyScreen number i of the chain, on the root surface.
OriginX(i) == SumSeq([j \in 1..i |-> chain[j].OffsetX])
OriginY(i) == SumSeq([j \in 1..i |-> chain[j].OffsetY])
InComposedRectangle(cell) ==
    \A i \in 1..Len(chain) :
        /\ OriginX(i) <= cell[1] /\ cell[1] < OriginX(i) + chain[i].Width
        /\ OriginY(i) <= cell[2] /\ cell[2] < OriginY(i) + chain[i].Height

\* C9: a write at local (x, y) of the innermost ProxyScreen of a chain lands on
\* the root surface at (x + sum of OffsetX, y + sum of OffsetY) or nowhere, and
\* no write, Fill or Clear touches a root cell outside the intersection of the
\* rectangles of the chain.
C9_ChainComposes ==
    probe.op # "none" =>
        /\ probe.op \in CellOps =>
              probe.cells \subseteq {<<probe.x + OriginX(Len(chain)),
                                       probe.y + OriginY(Len(chain))>>}
        /\ \A cell \in probe.cells : InComposedRectangle(cell)

\* C10: the focused child of a Flex, Grid or Form is unset or one of its
\* current children, and a component that was removed from the tree is not
\* drawn and gets no key or paste event.
C10_FocusedIsCurrentChild ==
    /\ \A p \in Nodes : Kind[p] \in {"Flex", "Form"} =>
          FocusedChildOf(p) \in ChildrenOf(p) \cup {"nil"}
    /\ \A n \in DrawnNow \cup PastedNow \cup UNION {KeyedNow(key) : key \in TreeKeys} :
          Attached(n)

\* ---- the layout the last Draw gave the children of the Flex F ----

\* The sizes the children of F were added with, in list order.
FlexSizesOf == [i \in 1..Len(ui["F"].children) |-> ui["F"].children[i].size]
\* The space F has along its axis (it stacks vertically in direction FlexRow).
TotalSpace == IF ui["F"].direction = "FlexRow" THEN surface[2] ELSE surface[1]
\* The extent and the offset of child number i of F along the axis of F.
ExtentOf(i) ==
    LET ss == ui[ui["F"].children[i].target].screen
    IN IF ui["F"].direction = "FlexRow" THEN ss.Height ELSE ss.Width
OffsetOf(i) ==
    LET ss == ui[ui["F"].children[i].target].screen
    IN IF ui["F"].direction = "FlexRow" THEN ss.OffsetY ELSE ss.OffsetX
Extents == [i \in 1..Len(ui["F"].children) |-> ExtentOf(i)]
Reserved == SumSeq([i \in 1..Len(FlexSizesOf) |->
                      IF FlexSizesOf[i] > 0 THEN FlexSizesOf[i] ELSE 0])
TotalWeight == SumSeq([i \in 1..Len(FlexSizesOf) |->
                         IF FlexSizesOf[i] < 0 THEN -FlexSizesOf[i] ELSE 0])

\* C11: after a Draw, the extents of the children of a Flex along its axis add
\* up to the space the Flex has, and so do the row heights and column widths of
\* a Grid (G has one column and a row for each of its two children).
C11_ExtentsFillAxis ==
    laidOut =>
        /\ SumSeq(Extents) = TotalSpace
        /\ (Attached("G") /\ ui["G"].children = <<"B", "M">>) =>
              /\ ui["B"].screen.Height + ui["M"].screen.Height = ui["G"].prevHeight
              /\ ui["B"].screen.Width = ui["G"].prevWidth
              /\ ui["M"].screen.Width = ui["G"].prevWidth

\* Offsets accumulate in list order from 0, and a fixed child has its size.
OffsetsAccumulate ==
    \A i \in 1..Len(FlexSizesOf) :
        /\ OffsetOf(i) = SumSeq(SubSeq(Extents, 1, i - 1))
        /\ FlexSizesOf[i] >= 0 => ExtentOf(i) = FlexSizesOf[i]

\* C12 (as stated): Flex.Draw gives a fixed child its size and a proportional
\* child of weight w exactly floor((totalSpace - fixed sizes) * w / weights)
\* cells, with offsets accumulating in list order from 0.
C12_FloorShares ==
    laidOut =>
        /\ OffsetsAccumulate
        /\ \A i \in 1..Len(FlexSizesOf) :
              FlexSizesOf[i] < 0 =>
                 LET n == (TotalSpace - Reserved) * (-FlexSizesOf[i])
                 IN /\ ExtentOf(i) * TotalWeight <= n
                    /\ n < (ExtentOf(i) + 1) * TotalWeight

\* C12 (amended): Flex.Draw gives a fixed child its size and a proportional
\* child of weight w the quotient (totalSpace - fixed sizes) * w / weights
\* truncated toward zero: the floor when the fixed sizes fit in the space, the
\* ceiling (zero or negative) when they do not; offsets accumulate in list
\* order from 0.
C12_TruncatedShares ==
    laidOut =>
        /\ OffsetsAccumulate
        /\ \A i \in 1..Len(FlexSizesOf) :
              FlexSizesOf[i] < 0 =>
                 LET n == (TotalSpace - Reserved) * (-FlexSizesOf[i])
                 IN IF n >= 0
                    THEN /\ ExtentOf(i) * TotalWeight <= n
                         /\ n < (ExtentOf(i) + 1) * TotalWeight
                    ELSE /\ (ExtentOf(i) - 1) * TotalWeight < n
                         /\ n <= ExtentOf(i) * TotalWeight

\* A fixed child of size 10 and proportional children of weights 1 and 3 drawn
\* on 50 cells: extents 10, 10, 30 at offsets 0, 10, 20.
C12_Witness ==
    /\ laidOut
    /\ FlexSizesOf = <<10, -1, -3>>
    /\ TotalSpace = 50
    /\ Extents = <<10, 10, 30>>
    /\ [i \in 1..3 |-> OffsetOf(i)] = <<0, 10, 20>>

\* What the Grid G does with a left click (no motion) at (x, y) of its own
\* area when the mouse handler of the leaf that gets the event returns h.
GridClickNow(x, y, h) ==
    GridOnMouseEvent("G", MouseEvent(x, y, "Button1", FALSE), h, Call(ui))

\* C13: when child a of the Grid G is focused and a left click arrives inside
\* the rectangle of another child b, a is blurred, b is focused, the focused
\* child of G is b, and the Grid reports the event handled whatever the
\* handler of b returns.
C13_ClickMovesFocus ==
    (laidOut /\ ui["G"].fitem \in ChildrenOf("G") /\ ui[ui["G"].fitem].focused) =>
        \A b \in ChildrenOf("G") \ {ui["G"].fitem} :
            \A x \in 0..(MaxWidth - 1), y \in 0..(MaxHeight - 1), h \in BOOLEAN :
                InRectangle(ui[b].screen, x, y) =>
                    LET r == GridClickNow(x, y, h)
                    IN /\ r.ret
                       /\ r.u.n["G"].fitem = b
                       /\ r.u.n[b].focused
                       /\ ~r.u.n[ui["G"].fitem].focused

\* Container p holds its child n as focused.
HoldsFocused(p, n) ==
    CASE Kind[p] \in {"Flex", "Form"} -> FocusedChildOf(p) = n
      [] Kind[p] = "Centerer" -> ui[p].childFocused
      [] OTHER -> TRUE
\* Component p is a container that holds no child as focused.
NoFocusedChild(p) ==
    CASE Kind[p] \in {"Flex", "Form"} -> FocusedChildOf(p) = "nil"
      [] Kind[p] = "Centerer" -> ~ui[p].childFocused
      [] OTHER -> FALSE
\* The call r of a key or paste handler of the root went down the focused
\* path only, and ended unhandled at a container without a focused child.
AlongFocusedPath(r) ==
    LET ks == r.u.keys
    IN /\ \A i \in 2..Len(ks) : HoldsFocused(ParentOf[ks[i]], ks[i])
       /\ NoFocusedChild(ks[Len(ks)]) => ~r.ret

\* C14: a key or paste event given to the root is delivered only along the
\* focused path: every container forwards it only to the child it holds as
\* focused, and a container without a focused child delivers it to no child
\* and reports it not handled.
C14_KeysFollowFocus ==
    \A h \in BOOLEAN :
        /\ \A key \in TreeKeys : AlongFocusedPath(OnKeyEvent(RootComp, key, h, Call(ui)))
        /\ AlongFocusedPath(OnPasteEvent(RootComp, h, Call(ui)))

AfterHandlerStep == pc = "checkstop" /\ pc' # "checkstop" /\ turn.calls = 1

\* C16 (as stated): for every key, paste and mouse event the loop gives to the
\* root, the loop draws the root iff the handler reported handled, in the same
\* iteration and before it takes the next item.
C16_RedrawIffHandled ==
    [][AfterHandlerStep => ((pc' = "draw") <=> turn.handled)]_vars

\* C16 (amended): for every key, paste and mouse event the loop gives to the
\* root, the loop checks for a stop signal when the handler has returned: with
\* a signal pending it exits without drawing; without one it draws the root iff
\* the handler reported handled, in the same iteration: nothing is taken from
\* the events or updates channel between the handler's return and the draw, and
\* the loop takes its next item only once it is back at the select.
C16_RedrawIffHandledUnlessStop ==
    [][/\ AfterHandlerStep =>
            IF stop = 1
            THEN pc' = "defer1"
            ELSE /\ (pc' = "draw") <=> turn.handled
                 /\ ~turn.handled => pc' = "select"
                 /\ events' = events /\ updates' = updates
       /\ (pc = "handler" /\ pc' # "handler") =>
            /\ pc' = "checkstop"
            /\ redraw' = turn'.handled
            /\ events' = events /\ updates' = updates
       /\ (turn'.ev # turn.ev /\ turn'.ev # NoEvent) => pc = "select"
       /\ (pc = "draw" /\ pc' # "draw") => pc' = "select"]_vars

C16_Witness ==
    /\ pc = "checkstop"
    /\ turn.calls = 1
    /\ turn.ev = MouseEv
    /\ turn.handled
    /\ stop = 0
    /\ events # <<>>

\* The loop iteration took a paste-end marker that no paste-start precedes.
StrayPasteEndTurn == turn.ev = PasteEv(FALSE) /\ ~turn.pasting

\* C17: a paste-end marker without a paste-start is a no-op: the loop calls no
\* handler of the root, triggers no redraw, and leaves the paste flag and the
\* paste buffer as they were.
C17_StrayPasteEndIsNoOp ==
    StrayPasteEndTurn =>
        /\ turn.calls = 0
        /\ pc # "handler"
        /\ ~redraw
        /\ ~isPasting
        /\ pasteBuffer = <<>>

\* A task has called Stop.
StopRequested == \E t \in StopCallers : stopPc[t] # "idle"

\* The events channel is a queue: an event is added at its end, and the loop
\* takes the event at its front, at the select; nothing else changes it while
\* the loop runs.
EventsAreQueued ==
    [][events' # events =>
         \/ \E e \in TermEvents : events' = Append(events, e)
         \/ /\ events # <<>>
            /\ events' = Tail(events)
            /\ pc = "select"
            /\ turn'.ev = Head(events)
         \/ pc = "stopped"]_vars

\* C18 (as stated): events are taken in the order they were put in the queue,
\* and every event that is in the queue of the running loop before a stop is
\* requested is eventually taken by the loop.
C18_EveryEventTaken ==
    /\ EventsAreQueued
    /\ \A e \in QueueKinds :
          (events # <<>> /\ Head(events) = e /\ ~StopRequested) ~> (turn.ev = e)

\* C18 (amended): events are taken in the order they were put in the queue and
\* none is dropped while the loop runs; the event at the front of the queue is
\* eventually taken by the loop unless a stop is requested before the loop
\* takes it.
C18_EveryEventTakenUnlessStop ==
    /\ EventsAreQueued
    /\ \A e \in QueueKinds :
          (events # <<>> /\ Head(events) = e) ~> (turn.ev = e \/ StopRequested)

C18_Witness ==
    /\ pc = "handler"
    /\ turn.ev = MouseEv
    /\ events = <<KeyA>>
    /\ quota.events = LoopEvents - 2
    /\ ~StopRequested

\* What the Centerer C does with a left click (no motion) at (x, y) of its own
\* area when the mouse handler of its child returns h.
CentererClickNow(x, y, h) ==
    CentererOnMouseEvent("C", MouseEvent(x, y, "Button1", FALSE), h, Call(ui))

\* The positions of left clicks around and on the area of a surface.
ClickXs == (0 - 1)..MaxWidth
ClickYs == (0 - 1)..MaxHeight

\* C19: a left click (no motion) outside the rectangle of the child of the
\* Centerer C blurs the child when alwaysFocusChild is unset; when it is set
\* the click is reported handled and neither childFocused nor the focus of the
\* child changes.
C19_OutsideClick ==
    \A x \in ClickXs, y \in ClickYs, h \in BOOLEAN :
        ~InRectangle(ui["D"].screen, x, y) =>
            LET r == CentererClickNow(x, y, h)
            IN IF ui["C"].alwaysFocusChild
               THEN /\ r.ret
                    /\ r.u.n["C"].childFocused = ui["C"].childFocused
                    /\ r.u.n["D"].focused = ui["D"].focused
               ELSE /\ ~r.u.n["C"].childFocused
                    /\ ~r.u.n["D"].focused

\* What the Box B does with a left click (no motion) at (x, y) of its own area
\* when the mouse handler of its child returns h.
BoxClickNow(x, y, h) ==
    BoxOnMouseEvent("B", MouseEvent(x, y, "Button1", FALSE), h, Call(ui))

\* (x, y) is a cell of the interior of a bordered area of the given size.
InInterior(width, height, x, y) ==
    /\ 1 <= x /\ x < width - 1
    /\ 1 <= y /\ y < height - 1

\* C20: when the bordered Box B has been drawn on an area of at least 2x2, the
\* (x, y) of its child is (x+1, y+1) of the area of the Box, and a mouse event
\* on a border cell or otherwise outside the interior is not given to the child
\* and is reported not handled.
C20_BorderClicksRejected ==
    LET width == ui["B"].screen.Width
        height == ui["B"].screen.Height
    IN (laidOut /\ Attached("B") /\ ui["B"].border /\ width >= 2 /\ height >= 2) =>
          /\ ui["L"].screen.OffsetX = 1
          /\ ui["L"].screen.OffsetY = 1
          /\ ui["L"].screen.Width = width - 2
          /\ ui["L"].screen.Height = height - 2
          /\ \A x \in (0 - 1)..width, y \in (0 - 1)..height, h \in BOOLEAN :
                ~InInterior(width, height, x, y) => ~BoxClickNow(x, y, h).ret

\* C21: a left-button press inside the border of the Box B calls Focus() on
\* the Box before the event is given to the child: when the child gets the
\* event the Box is focused.
C21_PressFocusesBox ==
    LET width == ui["B"].screen.Width
        height == ui["B"].screen.Height
    IN (laidOut /\ Attached("B") /\ ui["B"].border /\ width >= 2 /\ height >= 2) =>
          \A x \in 0..(width - 1), y \in 0..(height - 1), h \in BOOLEAN :
              InInterior(width, height, x, y) => BoxClickNow(x, y, h).u.n["B"].focused

\* What the Form G does with the key when the handler that gets it (Submit of
\* the focused form item for Enter) returns h.
FormKeyNow(key, h) == FormOnKeyEvent("G", key, h, Call(ui))

\* The item after and the item before item i of the form items of G, in the
\* order they were added, wrapping at both ends.
ItemAfter(i) == ui["G"].items[(i % Len(ui["G"].items)) + 1]
ItemBefore(i) == ui["G"].items[((i + Len(ui["G"].items) - 2) % Len(ui["G"].items)) + 1]

\* After the call with result r the focus of G has moved from form item old to
\* form item new: G holds new as focused, old has been blurred, and new has
\* been focused if G has received the focus.
FocusMoved(r, old, new) ==
    /\ ~r.u.panic
    /\ r.u.n["G"].fitem = new
    /\ old # new => ~r.u.n[old].focused
    /\ ui["G"].focusReceived => r.u.n[new].focused

\* C22: when form item i of the n >= 1 items of the Form G is focused, Tab
\* moves the focus to item (i+1) mod n and Shift-Tab to item (i-1) mod n, in
\* the order the items were added; the item that was focused is blurred and
\* the key is reported handled.
C22_TabCyclesItems ==
    \A i \in 1..Len(ui["G"].items), h \in BOOLEAN :
        ui["G"].fitem = ui["G"].items[i] =>
            /\ FormKeyNow("KeyTab", h).ret
            /\ FocusMoved(FormKeyNow("KeyTab", h), ui["G"].items[i], ItemAfter(i))
            /\ FormKeyNow("KeyBacktab", h).ret
            /\ FocusMoved(FormKeyNow("KeyBacktab", h), ui["G"].items[i], ItemBefore(i))

\* Tab has brought the focus of a form of three items from its first to its
\* second item.
C22_Witness ==
    /\ ui["G"].items = <<"B", "M", "N">>
    /\ ui["G"].fitem = "M"
    /\ ui["G"].focusReceived
    /\ ui["M"].focused
    /\ ~ui["B"].focused
    /\ FormKeyNow("KeyTab", FALSE).u.n["G"].fitem = "N"
    /\ FormKeyNow("KeyBacktab", FALSE).u.n["G"].fitem = "B"

\* C23: Enter while form item i of the Form G, one that has Submit, is focused
\* calls the Submit of that item exactly once and no other handler; if Submit
\* returns true the focus moves to the next form item and the key is reported
\* handled; if it returns false nothing of the tree changes and the key is
\* reported not handled.
C23_EnterSubmits ==
    \A i \in 1..Len(ui["G"].items), h \in BOOLEAN :
        (ui["G"].fitem = ui["G"].items[i] /\ ui["G"].fitem \in FormItems) =>
            LET r == FormKeyNow("KeyEnter", h)
            IN /\ r.u.keys = <<ui["G"].fitem>>
               /\ r.ret = h
               /\ h => FocusMoved(r, ui["G"].items[i], ItemAfter(i))
               /\ ~h => r.u.n = ui

\* The second of three form items is focused: Enter moves the focus to the
\* third if Submit returns true and leaves it if Submit returns false.
C23_Witness ==
    /\ ui["G"].items = <<"B", "M", "N">>
    /\ ui["G"].fitem = "M"
    /\ ui["G"].focusReceived
    /\ ui["M"].focused
    /\ FormKeyNow("KeyEnter", TRUE).u.n["G"].fitem = "N"
    /\ FormKeyNow("KeyEnter", TRUE).u.n["N"].focused
    /\ FormKeyNow("KeyEnter", FALSE).u.n["G"].fitem = "M"

\* A call of Start returns the error of newScreen.
StartFailsOnScreen ==
    /\ pc = "stopped"
    /\ quota'.starts < quota.starts
    /\ startErr' = "screen"

\* C24: when acquiring the terminal fails in Start, in tcell.NewScreen or in
\* screen.Init, Start returns the error, no loop runs, and a screen that
\* tcell.NewScreen had returned has been torn down with Fini before Start
\* returns.
C24_FailedStartTearsDown ==
    [][StartFailsOnScreen =>
          /\ pc' = "stopped"
          /\ UNCHANGED <<screen, gen, events, inRoot>>
          /\ tscreen' \in {"none", "finished"}]_vars

\* C25: for every size of the surface and every mix of fixed sizes and weights
\* of the children of F and of the columns and rows of G (the cells of the
\* children of G being within its columns and rows), Flex.Draw and
\* Grid.OnResize complete: no Draw has panicked, and neither the Draw of the
\* tree nor the OnResize of G panics on any of the surfaces.
C25_LayoutsComplete ==
    /\ ~panicked
    /\ \A size \in LayoutSurfaces :
          /\ ~Draw(RootComp, size[1], size[2], Call(ui)).panic
          /\ ~OnResize("G", size[1], size[2], Call(ui)).panic

\* F, with a fixed child larger than the surface and no proportional child,
\* and G, with fixed rows only that are higher than its area, have been drawn.
C25_Witness ==
    /\ laidOut
    /\ FlexSizesOf = <<12, 2>>
    /\ TotalSpace < Reserved
    /\ ui["G"].rowHeights = <<3, 3>>
    /\ pnSum(ui["G"].rowHeights).positive > ui["G"].prevHeight
    /\ ui["G"].prevHeight >= 0
    /\ ~panicked

Min(a, b) == IF a <= b THEN a ELSE b

\* The size of the parent of the innermost ProxyScreen of the chain.
ParentSize == SizeVia(chain, Len(chain) - 1, surface)

\* C26: Size() of a ProxyScreen returns (min(Width, parentWidth - OffsetX),
\* min(Height, parentHeight - OffsetY)): never more than the configured size
\* and never more than what is left of the parent past the offset.
C26_SizeIsClipped ==
    probe.op = "Size" =>
        LET ss == chain[Len(chain)]
        IN /\ probe.size[1] = Min(ss.Width, ParentSize[1] - ss.OffsetX)
           /\ probe.size[2] = Min(ss.Height, ParentSize[2] - ss.OffsetY)
           /\ probe.size[1] <= ss.Width /\ probe.size[1] <= ParentSize[1] - ss.OffsetX
           /\ probe.size[2] <= ss.Height /\ probe.size[2] <= ParentSize[2] - ss.OffsetY

\* Size() of a ProxyScreen inside another one returned its own width and, its
\* parent being less high past the offset, less than its own height.
C26_Witness ==
    /\ probe.op = "Size"
    /\ Len(chain) = 2
    /\ chain[2].OffsetX # 0
    /\ chain[2].Width > 0
    /\ probe.size[1] = chain[2].Width
    /\ probe.size[2] < chain[2].Height
    /\ probe.size[2] = ParentSize[2] - chain[2].OffsetY

\* What the Flex F does with a left click (no motion) at (x, y) of its own
\* area when the mouse handler of the leaf that gets the event returns h.
FlexClickNow(x, y, h) ==
    FlexOnMouseEvent("F", MouseEvent(x, y, "Button1", FALSE), h, Call(ui))

\* Component n is not focused in the tree nodes: a leaf or a Box that is not
\* focused, a Grid that has not the focus, a Centerer whose child is not
\* focused.
NotFocusedIn(nodes, n) ==
    CASE Kind[n] \in {"Leaf", "Box"} -> ~nodes[n].focused
      [] Kind[n] = "Form" -> ~nodes[n].focusReceived
      [] Kind[n] = "Centerer" -> ~nodes[n].childFocused
      [] OTHER -> TRUE

\* C27: when child a of the Flex F is the focused one, a left click (no
\* motion) inside the rectangle of another child b blurs a, makes b the
\* focused child and gives b the event, and F reports it handled; a left click
\* outside the rectangles of all children blurs a and clears the focus pointer.
C27_FlexClickMovesFocus ==
    (laidOut /\ ui["F"].fchild # NoChild /\ ui["F"].fchild.target \in ChildrenOf("F")) =>
        LET a == ui["F"].fchild.target
        IN \A x \in ClickXs, y \in ClickYs, h \in BOOLEAN :
              LET r == FlexClickNow(x, y, h)
                  inside == {b \in ChildrenOf("F") : InRectangle(ui[b].screen, x, y)}
              IN /\ \A b \in inside \ {a} :
                       /\ r.ret
                       /\ r.u.n["F"].fchild.target = b
                       /\ r.u.route[1].to = b
                       /\ NotFocusedIn(r.u.n, a)
                 /\ inside = {} =>
                       /\ r.u.n["F"].fchild = NoChild
                       /\ NotFocusedIn(r.u.n, a)

\* The size of the area the Centerer C was last drawn on: Size() of the
\* screen F keeps for it.
CenterArea == ProxySize(ui["C"].screen, surface[1], surface[2])

\* The offset of a child of the given size centered in the available space:
\* half of what is left, 0 if the child is larger.
CenteredOffset(available, size) ==
    IF available - size >= 0 THEN (available - size) \div 2 ELSE 0

\* C28: after any sequence of Draw calls on surfaces of varying sizes, the
\* offset of the child of the Centerer C is on each axis (available - size) / 2
\* when that is not negative, and 0 where the child is larger than the area.
C28_ChildIsCentered ==
    (laidOut /\ Attached("C")) =>
        /\ ui["D"].screen.OffsetX = CenteredOffset(CenterArea[1], ui["D"].screen.Width)
        /\ ui["D"].screen.OffsetY = CenteredOffset(CenterArea[2], ui["D"].screen.Height)

\* The size of the area the Box B was last drawn on: Size() of the screen G
\* keeps for it, G being drawn on the screen F keeps for G.
GridArea == ProxySize(ui["G"].screen, surface[1], surface[2])
BoxArea == ProxySize(ui["B"].screen, GridArea[1], GridArea[2])

\* C29: Box.Draw draws the border iff the border flag is set and the area is at
\* least 2x2, and every Draw leaves the rectangle of the child as the area less
\* one cell on each side (offset 1,1; width-2, height-2) when the border is
\* drawn, and as the whole area (offset 0,0; full width and height) when not.
C29_ChildRectangle ==
    (laidOut /\ Attached("B")) =>
        ui["L"].screen =
            IF ui["B"].border /\ BoxArea[1] >= 2 /\ BoxArea[2] >= 2
            THEN NewProxy(1, 1, BoxArea[1] - 2, BoxArea[2] - 2)
            ELSE NewProxy(0, 0, BoxArea[1], BoxArea[2])

\* The extents OnResize of a Grid computes along one axis for the sizes and
\* weights of the children of F and the space of F (unnamed/part_009:262-263).
GridExtents ==
    fillDynamic(FlexSizesOf, TotalSpace - pnSum(FlexSizesOf).positive,
                pnSum(FlexSizesOf).negative)

\* C30: along an axis a Grid distributes the space exactly as a Flex does: for
\* the same extent and the same fixed and proportional entries, the extents of
\* the columns (rows) of the Grid are the sizes Flex.Draw gives its children.
C30_GridDistributesAsFlex == laidOut => Extents = GridExtents

\* ---- the layout the last OnResize gave the children of the Grid G ----

\* The extents of the columns and of the rows OnResize computes for the area
\* G was last drawn on (unnamed/part_009:262-265).
ColumnExtents ==
    LET cw == ui["G"].columnWidths
    IN fillDynamic(cw, GridArea[1] - pnSum(cw).positive, pnSum(cw).negative)
RowExtents ==
    LET rh == ui["G"].rowHeights
    IN fillDynamic(rh, GridArea[2] - pnSum(rh).positive, pnSum(rh).negative)
GridKids == {ui["G"].children[i] : i \in 1..Len(ui["G"].children)}
GridLaidOut == laidOut /\ Attached("G") /\ ~panicked
\* The sum of the entries number from + 1 to from + count of arr, and the same
\* with the negative entries left out.
SpanSum(arr, from, count) == SumSeq(SubSeq(arr, from + 1, from + count))
SpanSumPositive(arr, from, count) == pnSum(SubSeq(arr, from + 1, from + count)).positive
\* The cells of the grid a child covers, and the cells of the screen of G
\* within the rectangle of a child.
CellsOf(k) ==
    LET cell == ui["G"].cells[k]
    IN (cell.relX..(cell.relX + cell.relWidth - 1))
         \X (cell.relY..(cell.relY + cell.relHeight - 1))
RectangleOf(k) ==
    LET ss == ui[k].screen
    IN (ss.OffsetX..(ss.OffsetX + ss.Width - 1)) \X (ss.OffsetY..(ss.OffsetY + ss.Height - 1))
DisjointRectangles ==
    \A k \in GridKids, m \in GridKids :
        (k # m /\ CellsOf(k) \cap CellsOf(m) = {}) => RectangleOf(k) \cap RectangleOf(m) = {}

\* C31: after a layout of a Grid the offset of the rectangle of each child is
\* the sum of the extents of the columns (rows) before its cell, its size the
\* sum of the extents of the columns (rows) it spans, and children that cover
\* disjoint cells of the grid have disjoint rectangles.
C31_RectangleIsSpanSum ==
    GridLaidOut =>
        /\ \A k \in GridKids :
             LET cell == ui["G"].cells[k]
             IN ui[k].screen = NewProxy(SpanSum(ColumnExtents, 0, cell.relX),
                                        SpanSum(RowExtents, 0, cell.relY),
                                        SpanSum(ColumnExtents, cell.relX, cell.relWidth),
                                        SpanSum(RowExtents, cell.relY, cell.relHeight))
        /\ DisjointRectangles

\* C31, amended: the same with a column or a row of negative extent counted
\* as empty.
C31_RectangleIsPositiveSpanSum ==
    GridLaidOut =>
        /\ \A k \in GridKids :
             LET cell == ui["G"].cells[k]
             IN ui[k].screen = NewProxy(SpanSumPositive(ColumnExtents, 0, cell.relX),
                                        SpanSumPositive(RowExtents, 0, cell.relY),
                                        SpanSumPositive(ColumnExtents, cell.relX, cell.relWidth),
                                        SpanSumPositive(RowExtents, cell.relY, cell.relHeight))
        /\ DisjointRectangles

\* A child over two columns, one of them of negative extent, next to a child
\* with a rectangle that is not empty in other cells of the grid.
C31_Witness ==
    /\ GridLaidOut
    /\ \E i \in 1..Len(ColumnExtents) : ColumnExtents[i] < 0
    /\ \E k \in GridKids, m \in GridKids :
         /\ ui["G"].cells[k].relWidth = 2 /\ ui[k].screen.Width > 0
         /\ k # m /\ CellsOf(k) \cap CellsOf(m) = {} /\ RectangleOf(m) # {}

\* ---- the order in which a Draw of the root draws the components ----

DrawsNow == Draw(RootComp, surface[1], surface[2], Call(ui))
\* How many times Draw is called on component k, and the number of the first.
DrawCount(k) == Cardinality({i \in 1..Len(DrawsNow.draws) : DrawsNow.draws[i] = k})
FirstDraw(k) ==
    CHOOSE i \in 1..Len(DrawsNow.draws) :
        DrawsNow.draws[i] = k /\ \A j \in 1..(i - 1) : DrawsNow.draws[j] # k
\* The Draw of p draws each child of p once, the focused one after the others.
DrawsChildrenOnce(p) ==
    /\ \A k \in ChildrenOf(p) : DrawCount(k) = 1
    /\ \A f \in ChildrenOf(p), k \in ChildrenOf(p) :
          (f = FocusedChildOf(p) /\ k # f) => FirstDraw(k) < FirstDraw(f)

\* C32: a Draw of a Flex or of a Grid draws each of its current children
\* exactly once, and the focused child, if there is one, after all the others.
C32_ChildrenDrawnOnce ==
    ~DrawsNow.panic =>
        \A p \in {"F", "G"} : DrawCount(p) = 1 => DrawsChildrenOnce(p)

\* ---- the loop applies a SetRoot request ----

\* The select takes a setRoot update; the loop leaves the stop check of the
\* iteration that took one.
SetRootStep == pc = "select" /\ pc' # "select" /\ turn'.update = "setRoot"
AfterSetRootStep == pc = "checkstop" /\ pc' # "checkstop" /\ turn.update = "setRoot"
\* The update replaces the root and calls Focus on it iff it is Focusable.
SetRootApplied ==
    /\ root' = Head(updates).root
    /\ turn'.focus = (IF root' \in Focusable THEN root' ELSE "none")
    /\ pc' = "checkstop"

\* C33 (as stated): a SetRoot request the loop applies replaces the root,
\* calls Focus on the new root iff it is Focusable, and the same iteration
\* clears the surface and draws the new root.
C33_SetRootRedraws ==
    [][/\ SetRootStep => SetRootApplied
       /\ AfterSetRootStep => (pc' = "draw" /\ clear /\ root' = root)]_vars

\* C33 (amended): the same, but the loop checks for a stop signal after it
\* has applied the request: with a signal pending it exits without clearing
\* and drawing; without one the same iteration clears the surface and draws
\* the new root, and takes nothing from the channels before the draw.
C33_SetRootRedrawsUnlessStop ==
    [][/\ SetRootStep => SetRootApplied
       /\ AfterSetRootStep =>
            IF stop = 1
            THEN pc' = "defer1"
            ELSE /\ pc' = "draw" /\ clear /\ root' = root
                 /\ events' = events /\ updates' = updates
       /\ pc = "draw" => root' = root]_vars

C33_Witness ==
    /\ pc = "checkstop"
    /\ turn.update = "setRoot" /\ turn.focus = "none"
    /\ root = "r2"
    /\ stop = 0 /\ redraw /\ clear

\* ---- Stop and the runs of the loop ----

\* No task is inside Stop.
NoStopInProgress == \A t \in StopCallers : stopPc[t] \in {"idle", "returned"}
\* Start begins a run after an earlier run of the loop has ended.
RestartStep == pc = "stopped" /\ pc' = "starting" /\ gen > 0

\* C35: a Start after the loop has ended and every Stop has returned runs the
\* loop until a new stop is requested: the run begins with no stop signal left
\* in the channel, the only thing that ends the loop.
C35_NoStaleStop ==
    [][(RestartStep /\ NoStopInProgress) => stop' = 0]_vars

\* C36: a Stop called while the loop is not running does not block: whenever
\* the loop is not running, the channel a task inside Stop receives from is
\* closed.
C36_StopReturnsWhenStopped ==
    \A t \in StopCallers :
        (pc = "stopped" /\ stopPc[t] = "waiting") => stopGen[t] \in closed

\* ---- Flex.SetFocused ----

\* The tree after F.SetFocused(comp), and the components whose key handler a
\* key then given to F reaches.
SetFocusedNow(comp) == SetFocusedOf("F", comp, Call(ui))
KeyedAfterSetFocused(comp, key) ==
    SeqRange(OnKeyEvent("F", key, TRUE, Call(SetFocusedNow(comp).n)).u.keys)
PastedAfterSetFocused(comp) ==
    SeqRange(OnPasteEvent("F", TRUE, Call(SetFocusedNow(comp).n)).u.keys)

\* C37: after SetFocused(comp) on a Flex, for a child comp at any place in the
\* list of children, the focused child of the Flex is comp, and the key and
\* paste events the Flex is given go to comp and to no other child.
C37_SetFocusedDesignatesChild ==
    \A comp \in ChildrenOf("F") :
        /\ SetFocusedNow(comp).n["F"].fchild.target = comp
        /\ \A key \in TreeKeys :
              KeyedAfterSetFocused(comp, key) \cap ChildrenOf("F") = {comp}
        /\ PastedAfterSetFocused(comp) \cap ChildrenOf("F") = {comp}

\* C38: Form.OnKeyEvent with Tab or Shift-Tab does not panic, for any number
\* of form items and any focused child, one that is not a form item included;
\* with no form item the Form keeps having no focused child.
C38_TabNeverPanics ==
    \A key \in {"KeyTab", "KeyBacktab"}, h \in BOOLEAN :
        /\ ~FormKeyNow(key, h).u.panic
        /\ (ui["G"].items = <<>> /\ ui["G"].fitem = "nil") =>
              FormKeyNow(key, h).u.n["G"].fitem = "nil"

\* C34: after any calls of AddComponent, SetColumn, SetRow, SetColumns and
\* SetRows the columns and the rows of a Grid cover the cells of every child
\* (relX + relWidth <= number of columns, relY + relHeight <= number of rows),
\* and no layout indexes outside them.
C34_ArraysCoverChildren ==
    /\ ~panicked
    /\ \A k \in GridKids :
          /\ ui["G"].cells[k].relX + ui["G"].cells[k].relWidth <= Len(ui["G"].columnWidths)
          /\ ui["G"].cells[k].relY + ui["G"].cells[k].relHeight <= Len(ui["G"].rowHeights)

====
